---------------------------- MODULE Spec2Model ----------------------------
(***************************************************************************)
(* Model of the medicine chatbot's query pipeline (chat_logic.py) and its  *)
(* HTTP entry point (app.py).                                              *)
(*                                                                         *)
(* Text is modelled as a sequence of one-character strings, so that the    *)
(* string operations of the code (lower, strip, split, find, the regular   *)
(* expressions) are computed as the code computes them.                    *)
(***************************************************************************)
EXTENDS Integers, Sequences, FiniteSets, TLC

-----------------------------------------------------------------------------
(* Python values                                                           *)

\* None, and a key that is missing from a document.  Both are one-element
\* tuples holding a multi-character string, so they differ from every text.
None == <<"<None>">>
Absent == <<"<absent>">>

\* dict.get(key): a missing key reads as None
Get(v) == IF v = Absent THEN None ELSE v

\* dict.get(key, default): only a missing key reads as the default
GetDefault(v, default) == IF v = Absent THEN default ELSE v

\* truth value of an optional string: None and "" are false
Truthy(v) == v # Absent /\ v # None /\ v # <<>>

-----------------------------------------------------------------------------
(* Python str operations                                                   *)

UpperLetters ==
    <<"A","B","C","D","E","F","G","H","I","J","K","L","M",
      "N","O","P","Q","R","S","T","U","V","W","X","Y","Z">>
LowerLetters ==
    <<"a","b","c","d","e","f","g","h","i","j","k","l","m",
      "n","o","p","q","r","s","t","u","v","w","x","y","z">>
Digits == {"0","1","2","3","4","5","6","7","8","9"}
Whitespace == {" ", "\t", "\n", "\r"}

Range(s) == {s[i] : i \in 1..Len(s)}
WordChars == Range(UpperLetters) \cup Range(LowerLetters) \cup Digits \cup {"_"}

LowerOf == [c \in Range(UpperLetters) |->
               LowerLetters[CHOOSE i \in 1..Len(UpperLetters) : UpperLetters[i] = c]]
UpperOf == [c \in Range(LowerLetters) |->
               UpperLetters[CHOOSE i \in 1..Len(LowerLetters) : LowerLetters[i] = c]]
LowerChar(c) == IF c \in DOMAIN LowerOf THEN LowerOf[c] ELSE c
UpperChar(c) == IF c \in DOMAIN UpperOf THEN UpperOf[c] ELSE c

\* str.lower(), str.upper()
Lower(s) == SubSeq([i \in 1..Len(s) |-> LowerChar(s[i])], 1, Len(s))
Upper(s) == SubSeq([i \in 1..Len(s) |-> UpperChar(s[i])], 1, Len(s))

Min(S) == CHOOSE x \in S : \A y \in S : x <= y
Max(S) ==
    LET negated == {0 - x : x \in S}
    IN  0 - (CHOOSE x \in negated : \A y \in negated : x <= y)

\* str.strip()
Strip(s) ==
    LET keep == {i \in 1..Len(s) : s[i] \notin Whitespace}
    IN  IF keep = {} THEN <<>> ELSE SubSeq(s, Min(keep), Max(keep))

\* p occurs in s at (1-based) position i
MatchAt(s, i, p) ==
    /\ i >= 1
    /\ i + Len(p) - 1 <= Len(s)
    /\ \A k \in 1..Len(p) : s[i + k - 1] = p[k]

\* str.find(p): the 0-based index of the first occurrence, -1 when none
Find(s, p) ==
    LET at == {i \in 1..(Len(s) + 1) : MatchAt(s, i, p)}
    IN  IF at = {} THEN -1 ELSE Min(at) - 1

\* p in s
Contains(s, p) == Find(s, p) > -1

\* str.replace(c, d) for one-character strings c and d
ReplaceChar(s, c, d) == SubSeq([i \in 1..Len(s) |-> IF s[i] = c THEN d ELSE s[i]], 1, Len(s))

\* str.replace(p, '') for a text p no two occurrences of which can overlap
\* (no proper prefix of p is a suffix of p): every occurrence is dropped
Remove(s, p) ==
    LET starts == {j \in 1..Len(s) : MatchAt(s, j, p)}
        Covered(i) == \E j \in starts : j <= i /\ i < j + Len(p)
        marked == SubSeq([i \in 1..Len(s) |-> IF Covered(i) THEN "<drop>" ELSE s[i]], 1, Len(s))
        Kept(c) == c # "<drop>"
    IN  SelectSeq(marked, Kept)

\* str.split(c) on a one-character separator
RECURSIVE SplitFrom(_, _, _, _)
SplitFrom(s, i, c, cur) ==
    IF i > Len(s) THEN <<cur>>
    ELSE IF s[i] = c THEN <<cur>> \o SplitFrom(s, i + 1, c, <<>>)
    ELSE SplitFrom(s, i + 1, c, Append(cur, s[i]))
Split(s, c) == SplitFrom(s, 1, c, <<>>)

\* the elements of a sequence that satisfy a test, in order
RECURSIVE SelectNonEmpty(_)
SelectNonEmpty(ss) ==
    IF ss = <<>> THEN <<>>
    ELSE IF Head(ss) # <<>> THEN <<Head(ss)>> \o SelectNonEmpty(Tail(ss))
    ELSE SelectNonEmpty(Tail(ss))

-----------------------------------------------------------------------------
(* Regular expressions of chat_logic.py                                    *)

\* \b at (1-based) position i of s: between s[i-1] and s[i]
WordBoundary(s, i) ==
    ((i > 1 /\ i - 1 <= Len(s)) /\ s[i - 1] \in WordChars)
        # ((i >= 1 /\ i <= Len(s)) /\ s[i] \in WordChars)

\* the positions right after a match, at position i, of the words of alt
\* separated by \s+  (alt is a sequence of words)
RECURSIVE AltEnds(_, _, _)
AltEnds(s, i, alt) ==
    IF ~MatchAt(s, i, Head(alt)) THEN {}
    ELSE LET j == i + Len(Head(alt))
         IN  IF Len(alt) = 1 THEN {j}
             ELSE UNION {AltEnds(s, k, Tail(alt)) :
                           k \in {k \in (j + 1)..Len(s) :
                                    \A m \in j..(k - 1) : s[m] \in Whitespace}}

\* re.search(r'\b(alt1|alt2|...)\b', s) finds a match
WordSearch(s, alts) ==
    \E alt \in alts : \E i \in 1..Len(s) :
        /\ WordBoundary(s, i)
        /\ \E e \in AltEnds(s, i, alt) : WordBoundary(s, e)

\* r'\b(those\s+drugs|the\s+drugs|it|them|side\s+effects|both)\b'
VaguePattern ==
    { << <<"t","h","o","s","e">>, <<"d","r","u","g","s">> >>,
      << <<"t","h","e">>, <<"d","r","u","g","s">> >>,
      << <<"i","t">> >>,
      << <<"t","h","e","m">> >>,
      << <<"s","i","d","e">>, <<"e","f","f","e","c","t","s">> >>,
      << <<"b","o","t","h">> >> }

\* r'\b(prescriptions|allergies|history|details|profile|weight|height|gender|age)\b'
UserDetailPattern ==
    { << <<"p","r","e","s","c","r","i","p","t","i","o","n","s">> >>,
      << <<"a","l","l","e","r","g","i","e","s">> >>,
      << <<"h","i","s","t","o","r","y">> >>,
      << <<"d","e","t","a","i","l","s">> >>,
      << <<"p","r","o","f","i","l","e">> >>,
      << <<"w","e","i","g","h","t">> >>,
      << <<"h","e","i","g","h","t">> >>,
      << <<"g","e","n","d","e","r">> >>,
      << <<"a","g","e">> >> }

S_PrimaryDrug == <<"P","r","i","m","a","r","y"," ","D","r","u","g">>
S_SecondaryDrug == <<"S","e","c","o","n","d","a","r","y"," ","D","r","u","g">>
S_PrimaryMarker == S_PrimaryDrug \o <<":">>
S_SecondaryMarker == S_SecondaryDrug \o <<":">>

\* the first position >= i of s that holds no character of set
SkipWhile(s, i, set) ==
    Min({k \in i..(Len(s) + 1) : k = Len(s) + 1 \/ s[k] \notin set})

\* r'\(ID:\s*(DB\d+)\)' matched at position p of s: the group DB\d+ and the
\* position right after the match; ok is FALSE when there is no match at p
IdTail(s, p) ==
    LET a == SkipWhile(s, p + 4, Whitespace)
        b == SkipWhile(s, a + 2, Digits)
    IN  IF /\ MatchAt(s, p, <<"(","I","D",":">>)
           /\ MatchAt(s, a, <<"D","B">>)
           /\ b > a + 2
           /\ MatchAt(s, b, <<")">>)
        THEN [ok |-> TRUE, id |-> SubSeq(s, a, b - 1), end |-> b + 1]
        ELSE [ok |-> FALSE, id |-> <<>>, end |-> 0]

\* re.findall(r'(Primary Drug|Secondary Drug):\s*(.*?)\s*\(ID:\s*(DB\d+)\)', s)
\* from position i on: the groups (match_type, db_id) of the non-overlapping
\* matches, left to right.  \s*(.*?)\s* matches any text without a newline,
\* the lazy group ending at the first place where the rest of the pattern
\* matches; the name group is read by no caller and is left out.
RECURSIVE CitationMatchesFrom(_, _)
CitationMatchesFrom(s, i) ==
    LET IsStart(k) == MatchAt(s, k, S_PrimaryMarker) \/ MatchAt(s, k, S_SecondaryMarker)
        starts == {k \in i..Len(s) : IsStart(k)}
    IN  IF starts = {} THEN <<>>
        ELSE LET k == Min(starts)
                 type == IF MatchAt(s, k, S_PrimaryMarker)
                         THEN S_PrimaryDrug ELSE S_SecondaryDrug
                 j == k + Len(type) + 1
                 tails == {p \in j..Len(s) :
                             /\ IdTail(s, p).ok
                             /\ \A m \in j..(p - 1) : s[m] # "\n"}
             IN  IF tails = {} THEN CitationMatchesFrom(s, k + 1)
                 ELSE LET tl == IdTail(s, Min(tails))
                      IN  <<[match_type |-> type, db_id |-> tl.id]>>
                              \o CitationMatchesFrom(s, tl.end)
CitationMatches(s) == CitationMatchesFrom(s, 1)

-----------------------------------------------------------------------------
(* The collaborators' data: drug registry, user profiles, passage index    *)

DB1 == <<"D","B","1">>
DB2 == <<"D","B","2">>
DB3 == <<"D","B","3">>
DB4 == <<"D","B","4">>
Aspirin == <<"A","s","p","i","r","i","n">>
Warfarin == <<"W","a","r","f","a","r","i","n">>
Ibuprofen == <<"I","b","u","p","r","o","f","e","n">>

\* no document: what find_one returns when nothing matches
NoDoc == [none |-> TRUE]

\* drug_collection, in the store's natural order.  Aspirin lists Warfarin
\* as interacting; Warfarin lists nothing; Kava has no drugbank_id;
\* Ibuprofen lists nothing and has no passage in the index; the last
\* document has no name key and is known by the synonym Zed.
\* A document without a drug_interactions key holds <<>> here, which is
\* what primary_match.get("drug_interactions", []) reads.
Registry ==
    << [drugbank_id |-> DB1, name |-> Aspirin,
        synonyms |-> << <<"A","S","A">> >>, products |-> <<>>,
        drug_interactions |->
            << [drugbank_id |-> DB2,
                description |-> <<"b","l","e","e","d","i","n","g">>] >>],
       [drugbank_id |-> DB2, name |-> Warfarin,
        synonyms |-> <<>>, products |-> << <<"C","o","u","m","a","d","i","n">> >>,
        drug_interactions |-> <<>>],
       [drugbank_id |-> Absent, name |-> <<"K","a","v","a">>,
        synonyms |-> <<>>, products |-> <<>>,
        drug_interactions |-> <<>>],
       [drugbank_id |-> DB3, name |-> Ibuprofen,
        synonyms |-> <<>>, products |-> <<>>,
        drug_interactions |-> <<>>],
       [drugbank_id |-> DB4, name |-> Absent,
        synonyms |-> << <<"Z","e","d">> >>, products |-> <<>>,
        drug_interactions |-> <<>>] >>

\* a prescription entry of a profile: a dict with a 'drug' key, or a string
PrescriptionDict(drug) == [is_dict |-> TRUE, value |-> drug]
PrescriptionStr(text) == [is_dict |-> FALSE, value |-> text]

\* {} : what user_data is when no profile was fetched
NoUserData == [found |-> FALSE, prescriptions |-> <<>>]

\* user_collection: user "u1" is prescribed Aspirin, an unknown drug and
\* Coumadin (a product of Warfarin); no other user has a profile
UserProfile(user_id_str) ==
    IF user_id_str = "u1"
    THEN [found |-> TRUE,
          prescriptions |->
              << PrescriptionDict(Aspirin),
                 PrescriptionStr(<<"Z","z","z">>),
                 PrescriptionDict(<<"c","o","u","m","a","d","i","n">>) >>]
    ELSE NoUserData

S_drug_interactions ==
    <<"d","r","u","g","_","i","n","t","e","r","a","c","t","i","o","n","s">>
S_description == <<"d","e","s","c","r","i","p","t","i","o","n">>

\* chroma_collection: the passages of the index, nearest first; the index
\* holds more than k passages of the drug DB4
PassageIndex ==
    << [id |-> <<"D","B","1","-","d">>, drugbank_id |-> DB1, section |-> S_description],
       [id |-> <<"D","B","1","-","i">>, drugbank_id |-> DB1, section |-> S_drug_interactions],
       [id |-> <<"D","B","2","-","i">>, drugbank_id |-> DB2, section |-> S_drug_interactions],
       [id |-> <<"4","a">>, drugbank_id |-> DB4, section |-> S_description],
       [id |-> <<"4","b">>, drugbank_id |-> DB4, section |-> S_drug_interactions],
       [id |-> <<"4","c">>, drugbank_id |-> DB4, section |-> S_description],
       [id |-> <<"4","d">>, drugbank_id |-> DB4, section |-> S_description],
       [id |-> <<"4","e">>, drugbank_id |-> DB4, section |-> S_description],
       [id |-> <<"4","f">>, drugbank_id |-> DB4, section |-> S_description],
       [id |-> <<"4","g">>, drugbank_id |-> DB4, section |-> S_description] >>

-----------------------------------------------------------------------------
(* Drug Registry Client                                                    *)

\* the first element of a sequence of documents that satisfies Test
FirstDoc(docs, Test(_)) ==
    IF \E i \in 1..Len(docs) : Test(docs[i])
    THEN docs[Min({i \in 1..Len(docs) : Test(docs[i])})]
    ELSE NoDoc

\* the $or query of find_drug_by_name: exact name, or a product name or a
\* synonym containing the word, all case-insensitive
NameQuery(doc, word) ==
    \/ doc.name # Absent /\ doc.name # None /\ Lower(doc.name) = Lower(word)
    \/ \E i \in 1..Len(doc.products) : Contains(Lower(doc.products[i]), Lower(word))
    \/ \E i \in 1..Len(doc.synonyms) : Contains(Lower(doc.synonyms[i]), Lower(word))

\* find_drug_by_name(word); db_error: the store raises PyMongoError
find_drug_by_name(word, db_error) ==
    IF db_error THEN NoDoc
    ELSE LET Test(doc) == NameQuery(doc, word) IN FirstDoc(Registry, Test)

\* drug_collection.find_one({"drugbank_id": db_id})
find_one_by_id(db_id) ==
    LET Test(doc) == doc.drugbank_id = db_id IN FirstDoc(Registry, Test)

\* the drugbank ids of a list of documents
IdsOf(docs) == {docs[i].drugbank_id : i \in 1..Len(docs)}

-----------------------------------------------------------------------------
(* Entity Resolver                                                         *)

\* a generator (llm.invoke) outcome: it raises, or it returns a text
LlmError == [ok |-> FALSE, text |-> <<>>]
LlmText(text) == [ok |-> TRUE, text |-> text]

\* drug_names = [name.strip() for name in response.split(',') if name.strip()]
DrugNames(response) ==
    LET parts == Split(response, ",")
    IN  SelectNonEmpty(SubSeq([i \in 1..Len(parts) |-> Strip(parts[i])], 1, Len(parts)))

\* the validation loop of extract_drug_from_text_ner from name k on;
\* db_errors: the positions of the names whose registry lookup raises
RECURSIVE NerLoop(_, _, _, _)
NerLoop(drug_names, k, db_errors, found_drugs) ==
    IF k > Len(drug_names) THEN found_drugs
    ELSE LET result == find_drug_by_name(drug_names[k], k \in db_errors)
         IN  IF /\ result # NoDoc
                /\ Truthy(Get(result.drugbank_id))
                /\ result.drugbank_id \notin IdsOf(found_drugs)
             THEN IF Len(found_drugs) + 1 >= 2
                  THEN Append(found_drugs, result)
                  ELSE NerLoop(drug_names, k + 1, db_errors, Append(found_drugs, result))
             ELSE NerLoop(drug_names, k + 1, db_errors, found_drugs)

\* the validation loop without the test of the record's drugbank_id
RECURSIVE NerLoop_KeepsMissingId(_, _, _, _)
NerLoop_KeepsMissingId(drug_names, k, db_errors, found_drugs) ==
    IF k > Len(drug_names) THEN found_drugs
    ELSE LET result == find_drug_by_name(drug_names[k], k \in db_errors)
         IN  IF /\ result # NoDoc
                /\ result.drugbank_id \notin IdsOf(found_drugs)
             THEN IF Len(found_drugs) + 1 >= 2
                  THEN Append(found_drugs, result)
                  ELSE NerLoop_KeepsMissingId(drug_names, k + 1, db_errors,
                                              Append(found_drugs, result))
             ELSE NerLoop_KeepsMissingId(drug_names, k + 1, db_errors, found_drugs)

\* extract_drug_from_text_ner that keeps records without a drugbank_id
extract_drug_from_text_ner_KeepsMissingId(ner, db_errors) ==
    IF ~ner.ok THEN <<>>
    ELSE LET response == Strip(ner.text)
         IN  IF Upper(response) = <<"N","O","N","E">> THEN <<>>
             ELSE NerLoop_KeepsMissingId(DrugNames(response), 1, db_errors, <<>>)

\* extract_drug_from_text_ner(text, llm); ner: the generator's outcome
extract_drug_from_text_ner(ner, db_errors) ==
    IF ~ner.ok THEN <<>>
    ELSE LET response == Strip(ner.text)
         IN  IF Upper(response) = <<"N","O","N","E">> THEN <<>>
             ELSE NerLoop(DrugNames(response), 1, db_errors, <<>>)

\* vague_follow_up
VagueFollowUp(question) == WordSearch(Lower(question), VaguePattern)

\* the condition under which the history fallback is attempted
FallbackAttempted(question, mongo_matches) ==
    mongo_matches = <<>> \/ (VagueFollowUp(question) /\ Len(mongo_matches) < 2)

\* sanitized_history
SanitizedHistory(history) ==
    LET a == Remove(history, <<"*">>)
        b == ReplaceChar(a, "\n", " ")
        c == ReplaceChar(b, "\r", " ")
        d == Remove(c, <<"A","I",":"," ">>)
    IN  Remove(d, <<"U","s","e","r",":"," ">>)

\* the loop over reversed(citation_matches) without its break at two
\* records
RECURSIVE HistoryLoop_NoBreak(_, _, _, _)
HistoryLoop_NoBreak(citation_matches, k, history_matches, history_ids) ==
    IF k < 1 THEN history_matches
    ELSE LET db_id == citation_matches[k].db_id
             doc == find_one_by_id(db_id)
         IN  IF db_id \notin history_ids /\ doc # NoDoc
             THEN HistoryLoop_NoBreak(citation_matches, k - 1,
                                      <<doc>> \o history_matches,
                                      history_ids \cup {db_id})
             ELSE HistoryLoop_NoBreak(citation_matches, k - 1,
                                      history_matches, history_ids)

\* the loop over reversed(citation_matches), from match k down to 1
RECURSIVE HistoryLoop(_, _, _, _)
HistoryLoop(citation_matches, k, history_matches, history_ids) ==
    IF k < 1 THEN history_matches
    ELSE LET db_id == citation_matches[k].db_id
             doc == find_one_by_id(db_id)
         IN  IF db_id \notin history_ids /\ doc # NoDoc
             THEN IF Len(history_matches) + 1 >= 2
                  THEN <<doc>> \o history_matches
                  ELSE HistoryLoop(citation_matches, k - 1,
                                   <<doc>> \o history_matches,
                                   history_ids \cup {db_id})
             ELSE HistoryLoop(citation_matches, k - 1, history_matches, history_ids)

\* history_matches of the fallback
HistoryMatches(history) ==
    LET citation_matches == CitationMatches(SanitizedHistory(history))
    IN  HistoryLoop(citation_matches, Len(citation_matches), <<>>, {})

\* the fallback looks a drug up by id (a lookup that is not guarded)
FallbackLooksUp(history) == CitationMatches(SanitizedHistory(history)) # <<>>

\* the fallback adding what it finds to the extracted drugs
HistoryFallback_Merges(history, mongo_matches, id_error) ==
    IF id_error /\ FallbackLooksUp(history)
    THEN [raised |-> TRUE, matches |-> <<>>, from_history |-> FALSE]
    ELSE LET history_matches == HistoryMatches(history)
         IN  IF history_matches # <<>>
             THEN [raised |-> FALSE, matches |-> mongo_matches \o history_matches,
                   from_history |-> TRUE]
             ELSE [raised |-> FALSE, matches |-> mongo_matches, from_history |-> FALSE]

\* the body of "if not mongo_matches or (vague_follow_up and len < 2)"
\* id_error: the by-id lookup of the fallback raises, which nothing catches
HistoryFallback(history, mongo_matches, id_error) ==
    IF id_error /\ FallbackLooksUp(history)
    THEN [raised |-> TRUE, matches |-> <<>>, from_history |-> FALSE]
    ELSE LET history_matches == HistoryMatches(history)
         IN  IF history_matches # <<>>
             THEN [raised |-> FALSE, matches |-> history_matches, from_history |-> TRUE]
             ELSE [raised |-> FALSE, matches |-> mongo_matches, from_history |-> FALSE]

-----------------------------------------------------------------------------
(* Interaction Resolver                                                    *)

\* how an f-string renders a value: None reads "None"
Fmt(v) == IF v = None THEN <<"N","o","n","e">> ELSE v

S_NA == <<"N","/","A">>
S_NoDescription ==
    <<"N","O"," ","D","E","S","C","R","I","P","T","I","O","N",":"," ",
      "I","n","t","e","r","a","c","t","i","o","n"," ","i","s"," ",
      "m","a","r","k","e","d"," ","b","u","t"," ","d","e","t","a","i","l","s"," ",
      "a","r","e"," ","m","i","s","s","i","n","g",".">>

\* description = interaction.get('description', 'NO DESCRIPTION: ...')
InteractionDescription(interaction) ==
    GetDefault(interaction.description, S_NoDescription)

\* the text block added to direct_interaction_context for one finding,
\* kept as the values the f-string interpolates
FindingBlock(primary_match, secondary_drug, interaction) ==
    [kind |-> "finding",
     primary_name |-> Fmt(GetDefault(primary_match.name, S_NA)),
     primary_id |-> Fmt(GetDefault(primary_match.drugbank_id, S_NA)),
     secondary_name |-> Fmt(GetDefault(secondary_drug.name, S_NA)),
     secondary_id |-> Fmt(Get(secondary_drug.drugbank_id)),
     description |-> Fmt(InteractionDescription(interaction))]

\* f"Structured Interaction Data for {primary_name} vs {secondary_name}"
InteractionSource(primary_match, secondary_drug) ==
    <<"S","t","r","u","c","t","u","r","e","d"," ",
      "I","n","t","e","r","a","c","t","i","o","n"," ","D","a","t","a"," ",
      "f","o","r"," ">>
        \o Fmt(GetDefault(primary_match.name, S_NA))
        \o <<" ","v","s"," ">>
        \o Fmt(GetDefault(secondary_drug.name, S_NA))

\* the interaction records of the primary that match a secondary drug
InteractionHits(primary_match, secondary_drug) ==
    LET primary_interactions == primary_match.drug_interactions
    IN  {i \in 1..Len(primary_interactions) :
            Get(primary_interactions[i].drugbank_id) = Get(secondary_drug.drugbank_id)}

\* the loop of _check_interactions from candidate k on
RECURSIVE CheckLoop(_, _, _, _)
CheckLoop(primary_match, secondary_drugs_to_check, k, secondary_for_rag) ==
    IF k > Len(secondary_drugs_to_check)
    THEN [context |-> <<>>, sources |-> <<>>, secondary_for_rag |-> secondary_for_rag]
    ELSE LET secondary_drug == secondary_drugs_to_check[k]
             hits == InteractionHits(primary_match, secondary_drug)
         IN  IF hits # {}
             THEN [context |->
                       <<FindingBlock(primary_match, secondary_drug,
                                      primary_match.drug_interactions[Min(hits)])>>,
                   sources |-> <<InteractionSource(primary_match, secondary_drug)>>,
                   secondary_for_rag |-> secondary_drug]
             ELSE CheckLoop(primary_match, secondary_drugs_to_check, k + 1,
                            IF secondary_for_rag = NoDoc THEN secondary_drug
                            ELSE secondary_for_rag)

\* _check_interactions that, without a finding, carries forward the last
\* candidate it checked
check_interactions_LastCandidate(primary_match, secondary_drugs_to_check) ==
    LET r == CheckLoop(primary_match, secondary_drugs_to_check, 1, NoDoc)
    IN  IF r.context # <<>> \/ secondary_drugs_to_check = <<>> THEN r
        ELSE [r EXCEPT !.secondary_for_rag =
                 secondary_drugs_to_check[Len(secondary_drugs_to_check)]]

\* _check_interactions that goes through the candidates last to first
check_interactions_Reversed(primary_match, secondary_drugs_to_check) ==
    CheckLoop(primary_match,
              [k \in 1..Len(secondary_drugs_to_check) |->
                  secondary_drugs_to_check[Len(secondary_drugs_to_check) + 1 - k]],
              1, NoDoc)

\* _check_interactions(primary_match, secondary_drugs_to_check)
check_interactions(primary_match, secondary_drugs_to_check) ==
    CheckLoop(primary_match, secondary_drugs_to_check, 1, NoDoc)

\* p_name = p_item.get('drug') if isinstance(p_item, dict) else str(p_item)
PrescriptionName(p_item) ==
    IF p_item.is_dict THEN Get(p_item.value) ELSE p_item.value

\* the prescription loop of _get_secondary_drugs_for_check from item k on
RECURSIVE PrescriptionLoop(_, _, _, _, _)
PrescriptionLoop(prescribed_items, k, db_errors, secondary_drugs_to_check, checked_ids) ==
    IF k > Len(prescribed_items) THEN secondary_drugs_to_check
    ELSE LET p_name == PrescriptionName(prescribed_items[k])
             prescribed_doc == IF Truthy(p_name)
                               THEN find_drug_by_name(p_name, k \in db_errors)
                               ELSE NoDoc
         IN  IF /\ prescribed_doc # NoDoc
                /\ Truthy(Get(prescribed_doc.drugbank_id))
                /\ prescribed_doc.drugbank_id \notin checked_ids
             THEN PrescriptionLoop(prescribed_items, k + 1, db_errors,
                                   Append(secondary_drugs_to_check, prescribed_doc),
                                   checked_ids \cup {prescribed_doc.drugbank_id})
             ELSE PrescriptionLoop(prescribed_items, k + 1, db_errors,
                                   secondary_drugs_to_check, checked_ids)

\* _get_secondary_drugs_for_check whose checked_ids starts empty
get_secondary_drugs_for_check_KeepsPrimary(query_matches, primary_match, user_data, db_errors) ==
    LET from_query ==
            IF Len(query_matches) > 1 /\ Truthy(Get(query_matches[2].drugbank_id))
            THEN <<query_matches[2]>>
            ELSE <<>>
    IN  IF user_data.found
        THEN PrescriptionLoop(user_data.prescriptions, 1, db_errors, from_query,
                              IdsOf(from_query))
        ELSE from_query

\* _get_secondary_drugs_for_check(query_matches, primary_match, user_data)
get_secondary_drugs_for_check(query_matches, primary_match, user_data, db_errors) ==
    LET primary_id == Get(primary_match.drugbank_id)
        from_query ==
            IF /\ Len(query_matches) > 1
               /\ Truthy(Get(query_matches[2].drugbank_id))
               /\ query_matches[2].drugbank_id # primary_id
            THEN <<query_matches[2]>>
            ELSE <<>>
    IN  IF user_data.found
        THEN PrescriptionLoop(user_data.prescriptions, 1, db_errors, from_query,
                              {primary_id} \cup IdsOf(from_query))
        ELSE from_query

-----------------------------------------------------------------------------
(* Intent Classifier                                                       *)

\* interaction_keywords
InteractionKeywords ==
    { <<"i","n","t","e","r","a","c","t">>,
      <<"c","o","m","b","i","n","e">>,
      <<"t","a","k","e"," ","w","i","t","h">>,
      <<"t","o","g","e","t","h","e","r">>,
      <<"c","o","n","t","r","a","i","n","d","i","c","a","t","e","d">>,
      <<"s","a","f","e"," ","w","i","t","h">> }

\* a classifier without the keyword test
FastPath_Never(question) == FALSE

\* any(keyword in question.lower() for keyword in interaction_keywords)
FastPath(question) ==
    \E keyword \in InteractionKeywords : Contains(Lower(question), keyword)

\* _classify_rag_intent(question, llm); outcome: the generator's outcome,
\* which is read only when the fast path does not apply
classify_rag_intent(question, outcome) ==
    IF FastPath(question) THEN "INTERACTION"
    ELSE IF ~outcome.ok THEN "GENERAL_INFO"
    ELSE LET response == Upper(Strip(outcome.text))
         IN  IF Contains(response, <<"I","N","T","E","R","A","C","T","I","O","N">>)
             THEN "INTERACTION"
             ELSE IF Contains(response, <<"G","E","N","E","R","A","L","_","I","N","F","O">>)
             THEN "GENERAL_INFO"
             ELSE "OTHER"

-----------------------------------------------------------------------------
(* Passage Retriever                                                       *)

\* ChromaDrugRetriever.k
K == 5

\* a where_filter that scopes to the drug only
WhereFilter_DrugOnly(drug_id, exclude_interactions) ==
    [drugbank_id |-> IF Truthy(drug_id) THEN drug_id ELSE Absent,
     section_ne |-> Absent]

\* where_filter of get_relevant_documents, as the pair of its two possible
\* conditions: drugbank_id equal to drug_id (when drug_id is set), and
\* section not equal to 'drug_interactions' (when exclude_interactions)
WhereFilter(drug_id, exclude_interactions) ==
    [drugbank_id |-> IF Truthy(drug_id) THEN drug_id ELSE Absent,
     section_ne |-> IF exclude_interactions THEN S_drug_interactions ELSE Absent]

\* the passage index applies a filter to a passage's metadata
FilterAccepts(where_filter, passage) ==
    /\ where_filter.drugbank_id # Absent => passage.drugbank_id = where_filter.drugbank_id
    /\ where_filter.section_ne # Absent => passage.section # where_filter.section_ne

\* collection.query(n_results=k, where=where_filter): the k nearest passages
\* among those the filter accepts
ChromaQuery(where_filter, k) ==
    LET Accepts(passage) == FilterAccepts(where_filter, passage)
        hits == SelectSeq(PassageIndex, Accepts)
    IN  SubSeq(hits, 1, IF Len(hits) < k THEN Len(hits) ELSE k)

\* a retriever that answers whether or not the embedder and the index do
get_relevant_documents_IgnoresFailure(drug_id, exclude_interactions, encode_ok, query_ok) ==
    ChromaQuery(WhereFilter(drug_id, exclude_interactions), K)

\* ChromaDrugRetriever.get_relevant_documents(query)
\* encode_ok, query_ok: whether the embedder and the index answer
get_relevant_documents(drug_id, exclude_interactions, encode_ok, query_ok) ==
    IF ~encode_ok \/ ~query_ok THEN <<>>
    ELSE ChromaQuery(WhereFilter(drug_id, exclude_interactions), K)

\* _get_drug_context_rag_docs that builds the header and footer of the
\* context block even when no document came back
get_drug_context_rag_docs_AlwaysHeader(drug_doc, exclude_interactions, encode_ok, query_ok) ==
    LET drug_id == Get(drug_doc.drugbank_id)
        docs == get_relevant_documents(drug_id, exclude_interactions, encode_ok, query_ok)
    IN  IF ~Truthy(drug_id)
        THEN [docs |-> <<>>, context |-> <<>>]
        ELSE [docs |-> docs,
              context |-> <<[kind |-> "drug_context",
                             drug_name |-> Fmt(GetDefault(drug_doc.name, S_NA)),
                             drug_id |-> drug_id,
                             passages |-> SubSeq([i \in 1..Len(docs) |-> docs[i].id], 1, Len(docs))]>>]

\* _get_drug_context_rag_docs(drug_doc, question, exclude_interactions):
\* the documents and the context block built from them (<<>> for '')
get_drug_context_rag_docs(drug_doc, exclude_interactions, encode_ok, query_ok) ==
    LET drug_id == Get(drug_doc.drugbank_id)
        docs == get_relevant_documents(drug_id, exclude_interactions, encode_ok, query_ok)
    IN  IF ~Truthy(drug_id) \/ docs = <<>>
        THEN [docs |-> <<>>, context |-> <<>>]
        ELSE [docs |-> docs,
              context |-> <<[kind |-> "drug_context",
                             drug_name |-> Fmt(GetDefault(drug_doc.name, S_NA)),
                             drug_id |-> drug_id,
                             passages |-> SubSeq([i \in 1..Len(docs) |-> docs[i].id], 1, Len(docs))]>>]

-----------------------------------------------------------------------------
(* Session Store                                                           *)

\* the turn save_context stores: {"input": "User: " + question},
\* {"output": "AI: " + response_text}
Turn(question, response_text) ==
    [input |-> <<"U","s","e","r",":"," ">> \o question,
     output |-> <<"A","I",":"," ">> \o response_text]

\* ConversationBufferMemory.buffer: the turns rendered as
\* "Human: <input>\nAI: <output>" lines joined by newlines
RECURSIVE Buffer(_)
Buffer(turns) ==
    IF turns = <<>> THEN <<>>
    ELSE LET line == <<"H","u","m","a","n",":"," ">> \o Head(turns).input
                         \o <<"\n">> \o <<"A","I",":"," ">> \o Head(turns).output
         IN  IF Len(turns) = 1 THEN line
             ELSE line \o <<"\n">> \o Buffer(Tail(turns))

-----------------------------------------------------------------------------
(* Source citation                                                         *)

\* the printable ASCII characters in code point order, from 32 (space) on
\* (the double quote, the backslash and the backquote, which no text here
\* holds, are written as place holders)
Ascii ==
    <<" ","!","<quote>","#","$","%","&","'","(",")","*","+",",","-",".","/",
      "0","1","2","3","4","5","6","7","8","9",":",";","<","=",">","?","@",
      "A","B","C","D","E","F","G","H","I","J","K","L","M",
      "N","O","P","Q","R","S","T","U","V","W","X","Y","Z",
      "[","<backslash>","]","^","_","<backquote>",
      "a","b","c","d","e","f","g","h","i","j","k","l","m",
      "n","o","p","q","r","s","t","u","v","w","x","y","z","{","|","}","~">>

\* ord(c)
CodePointOf ==
    [c \in Range(Ascii) |-> 31 + (CHOOSE i \in 1..Len(Ascii) : Ascii[i] = c)]
CodePoint(c) ==
    IF c = "\t" THEN 9 ELSE IF c = "\n" THEN 10 ELSE IF c = "\r" THEN 13
    ELSE CodePointOf[c]

\* a < b for str: the order sorted() uses
TextLess(a, b) ==
    \E i \in 1..(Len(a) + 1) :
        /\ i <= Len(b)
        /\ \A j \in 1..(i - 1) : a[j] = b[j]
        /\ i = Len(a) + 1 \/ CodePoint(a[i]) < CodePoint(b[i])

\* sorted(list(S)) for a set S of texts
RECURSIVE SortedTexts(_)
SortedTexts(S) ==
    IF S = {} THEN <<>>
    ELSE LET least == CHOOSE a \in S : \A b \in S \ {a} : TextLess(a, b)
         IN  <<least>> \o SortedTexts(S \ {least})

NoCitation ==
    [present |-> FALSE, primary_name |-> <<>>, primary_id |-> <<>>,
     has_secondary |-> FALSE, secondary_name |-> <<>>, secondary_id |-> <<>>,
     sources |-> <<>>]

\* source_citation: the values its lines are formatted from
SourceCitation(primary_match, secondary_for_rag, sources_list) ==
    IF sources_list = <<>> THEN NoCitation
    ELSE LET primary_id == Get(primary_match.drugbank_id)
             named == secondary_for_rag # NoDoc
                          /\ Truthy(Get(secondary_for_rag.drugbank_id))
             secondary_name_for_source ==
                 IF named THEN GetDefault(secondary_for_rag.name, S_NA) ELSE S_NA
             secondary_id_for_source ==
                 IF named THEN secondary_for_rag.drugbank_id ELSE S_NA
             shown == secondary_name_for_source # S_NA
                          /\ secondary_id_for_source # primary_id
         IN  [present |-> TRUE,
              primary_name |-> Fmt(GetDefault(primary_match.name, S_NA)),
              primary_id |-> Fmt(primary_id),
              has_secondary |-> shown,
              secondary_name |-> IF shown THEN Fmt(secondary_name_for_source) ELSE <<>>,
              secondary_id |-> IF shown THEN Fmt(secondary_id_for_source) ELSE <<>>,
              sources |-> SortedTexts(Range(sources_list))]

-----------------------------------------------------------------------------
(* Orchestrator: helpers                                                   *)

\* a reply of the service: the text (a fixed text or a template, with the
\* value filled in and the citation appended) and the HTTP status
Reply(text, arg, citation, status) ==
    [text |-> text, arg |-> arg, citation |-> citation, status |-> status]

MsgNoQuestion == "Please provide a question."
MsgUnavailable ==
    "Chat system is currently unavailable due to failed initialization of LLM/DB components. Please check server logs."
MsgReset ==
    "Chat history has been successfully reset. You can now start a new inquiry."
MsgProfileError ==
    "An error occurred while retrieving your profile details. Please try again."
MsgGeneralError ==
    "An error occurred during general chat processing. Please try again."
MsgRagError ==
    "An error occurred during the knowledge retrieval process. Please try again."
MsgMissingId ==
    "Found drug **{primary_name}**, but it's missing a DrugBank ID for vector retrieval. I cannot provide a specific answer based on this information."
MsgNoInformation ==
    "Found drug **{primary_name}**, but I couldn't find any relevant information in the knowledge base. I cannot provide a specific answer based on the drug information available in my database, but I strongly recommend consulting a healthcare professional."
MsgAnswer == "{response_text}{source_citation}"
MsgUncaught == "<uncaught exception>"

\* user_detail_query
UserDetailQuery(question) == WordSearch(Lower(question), UserDetailPattern)

\* the reorder correction of the drug flow: mongo_matches after it
Reorder(mongo_matches, question) ==
    LET q_lower == Lower(question)
    IN  IF /\ Len(mongo_matches) > 1
           /\ (Contains(q_lower, <<"t","a","k","e">>)
                 \/ Contains(q_lower, <<"i","n","t","e","r","a","c","t","i","o","n">>))
        THEN LET name0 == Lower(GetDefault(mongo_matches[1].name, <<>>))
                 name1 == Lower(GetDefault(mongo_matches[2].name, <<>>))
                 idx0 == Find(q_lower, name0)
                 idx1 == Find(q_lower, name1)
             IN  IF idx1 > -1 /\ (idx1 < idx0 \/ idx0 = -1)
                 THEN <<mongo_matches[2], mongo_matches[1]>>
                 ELSE mongo_matches
        ELSE mongo_matches

\* final_rag_targets
FinalRagTargets(primary_match, secondary_for_rag) ==
    IF /\ secondary_for_rag # NoDoc
       /\ Get(secondary_for_rag.drugbank_id) # Get(primary_match.drugbank_id)
    THEN <<primary_match, secondary_for_rag>>
    ELSE <<primary_match>>

\* history_for_prompt without the isolation
HistoryForPrompt_Keeps(history, direct_interaction_context) == history

\* history_for_prompt of the grounded prompt
HistoryForPrompt(history, direct_interaction_context) ==
    IF direct_interaction_context # <<>> THEN <<>> ELSE history

-----------------------------------------------------------------------------
(* Inputs of the model                                                     *)

\* the most turns all sessions together may hold
MaxTurns == 2

\* the X-User-ID header; "" stands for a request without the header
UserIdHeaders == {"", "u1"}

\* user_id = user_id_str or "default_user"
UserIdOf(user_id_str) == IF user_id_str = "" THEN "default_user" ELSE user_id_str

UserIds == {UserIdOf(h) : h \in UserIdHeaders}

\* the question parameter: missing (None), the reset phrase in another
\* case and with blanks around it, a two-drug question, a profile question
Questions ==
    { None,
      <<" ","R","e","s","e","t"," ","H","i","s","t","o","r","y">>,
      <<"t","a","k","e"," ","a","s","p","i","r","i","n"," ",
        "w","i","t","h"," ","W","a","r","f","a","r","i","n">>,
      <<"m","y"," ","a","l","l","e","r","g","i","e","s","?">> }

\* what the generator may answer the extraction prompt with
NerOutcomes ==
    { LlmError,
      LlmText(<<"N","o","n","e","\n">>),
      LlmText(<<" ","A","s","p","i","r","i","n">>),
      LlmText(<<"w","a","r","f","a","r","i","n",","," ","A","s","p","i","r","i","n">>),
      LlmText(<<"A","S","A",",","C","o","u","m","a","d","i","n">>),
      LlmText(<<"K","a","v","a",","," ","W","a","r","f","a","r","i","n">>) }

\* what the generator may answer the classification prompt with
ClassifyOutcomes ==
    { LlmError,
      LlmText(<<"I","n","t","e","r","a","c","t","i","o","n","\n">>),
      LlmText(<<" ","g","e","n","e","r","a","l","_","i","n","f","o">>),
      LlmText(<<"u","n","s","u","r","e">>) }

\* what the generator may answer a final prompt with: a plain answer, and
\* an answer that itself quotes a citation block
AnswerOutcomes ==
    { LlmError,
      LlmText(<<" ","o","k","\n">>),
      LlmText(<<"*","*","P","r","i","m","a","r","y"," ","D","r","u","g",":","*","*"," ",
                "A"," ","(","I","D",":"," ","D","B","1",")","\n",
                "*","*","S","e","c","o","n","d","a","r","y"," ","D","r","u","g",":","*","*"," ",
                "W"," ","(","I","D",":"," ","D","B","2",")">>) }

-----------------------------------------------------------------------------
(* State                                                                   *)

VARIABLES
    components,        \* which of llm, embedding_model, chroma_collection,
                       \* drug_collection are set (not None) after import
    session_memories,  \* session_memories: user id -> memory, or no entry
    pc,                \* where each thread is in chat_query / handle_chat_query
    loc,               \* the local variables of each thread's request
    after_reset,       \* history variable: the user ids whose latest handled
                       \* request so far was a history reset
    last_grounded,     \* history variable: the user and the drug ids (primary,
                       \* then secondary if any) of the grounded answer the
                       \* latest handled request produced, until the request
                       \* that follows it has resolved its drugs
    ingestion          \* the ingestion job embed_drug_data: the documents it
                       \* fetched, the position of its loop over them, and
                       \* the passages of the Chroma collection it fills

vars == <<components, session_memories, pc, loc, after_reset, last_grounded,
          ingestion>>

\* the request threads that serve requests
Threads == {1}

\* no entry in session_memories for a user id
NoSession == [exists |-> FALSE, turns |-> <<>>]

\* a ConversationBufferMemory held by a request: the one session_memories
\* holds for the user (attached), or one that session_memories holds no
\* longer, with its own turns
NoMemory == [attached |-> FALSE, turns |-> <<>>]

NoReply == Reply("", <<>>, NoCitation, 0)

\* the latest handled request produced no grounded answer
NoGrounded == [user_id |-> "", ids |-> <<>>]

IdleLocals ==
    [question |-> <<>>, user_id_str |-> "", user_id |-> "",
     user_data |-> NoUserData, chat_memory |-> NoMemory, history |-> <<>>,
     mongo_matches |-> <<>>, from_history |-> FALSE,
     primary_match |-> NoDoc, secondary_drugs_to_check |-> <<>>,
     secondary_for_rag |-> NoDoc,
     direct_interaction_context |-> <<>>, context_text |-> <<>>,
     sources_list |-> <<>>, rag_intent |-> "", exclude_interactions |-> FALSE,
     final_rag_targets |-> <<>>, unique_rag_ids |-> {},
     \* what the request did, for the properties
     before |-> [u \in UserIds |-> NoSession],
     extracted |-> <<>>, fallback_attempted |-> FALSE,
     calls |-> <<>>, generator_failed |-> FALSE, retrievals |-> <<>>,
     prompt_history |-> <<>>, response |-> NoReply]

\* the import-time outcomes: the MongoDB block sets both collections or
\* none; the RAG block sets llm, embedding_model, chroma_collection in
\* this order and stops at the first failure
ComponentStates ==
    {[llm |-> n >= 1, embedding_model |-> n >= 2, chroma_collection |-> n >= 3,
      drug_collection |-> m] : n \in 0..3, m \in BOOLEAN}

\* the ingestion job has not been run: nothing fetched, nothing stored
NoIngestion == [documents |-> <<>>, idx |-> 1, collection |-> <<>>]

Init ==
    /\ components \in ComponentStates
    /\ session_memories = [u \in UserIds |-> NoSession]
    /\ pc = [t \in Threads |-> "idle"]
    /\ loc = [t \in Threads |-> IdleLocals]
    /\ after_reset = {}
    /\ last_grounded = NoGrounded
    /\ ingestion = NoIngestion

\* the Initialization Check without the drug registry
ComponentMissing_IgnoresRegistry ==
    \/ ~components.llm
    \/ ~components.embedding_model
    \/ ~components.chroma_collection

\* llm is None or embedding_model is None or chroma_collection is None or
\* drug_collection is None
ComponentMissing ==
    \/ ~components.llm
    \/ ~components.embedding_model
    \/ ~components.chroma_collection
    \/ ~components.drug_collection

RECURSIVE SumOver(_, _)
SumOver(f, S) ==
    IF S = {} THEN 0
    ELSE LET x == CHOOSE x \in S : TRUE IN f[x] + SumOver(f, S \ {x})

\* the turns all sessions hold
TotalTurns == SumOver([u \in UserIds |-> Len(session_memories[u].turns)], UserIds)

\* question.lower().strip() == "reset history"
IsReset(question) ==
    Strip(Lower(question)) = <<"r","e","s","e","t"," ","h","i","s","t","o","r","y">>

\* reset_chat_history that deletes nothing
reset_chat_history_Keeps(memories, user_id) == memories

\* reset_chat_history(user_id): session_memories after it
\* a reset that clears the sessions of all users
reset_chat_history_All(memories, user_id) ==
    [u \in DOMAIN memories |-> NoSession]

reset_chat_history(memories, user_id) ==
    [memories EXCEPT ![user_id] = NoSession]

\* a request ends: its reply and where it stops
Finish(t, l, reply) ==
    /\ loc' = [loc EXCEPT ![t] = [l EXCEPT !.response = reply]]
    /\ pc' = [pc EXCEPT ![t] = "done"]

\* the requests that hold the memory of user_id lose it when the entry of
\* user_id is deleted or replaced: they keep the object, which is then in
\* session_memories no longer
Detached(locals, user_id) ==
    [t \in DOMAIN locals |->
        IF locals[t].user_id = user_id /\ locals[t].chat_memory.attached
        THEN [locals[t] EXCEPT !.chat_memory =
                 [attached |-> FALSE, turns |-> session_memories[user_id].turns]]
        ELSE locals[t]]

-----------------------------------------------------------------------------
(* Orchestrator: chat_query and handle_chat_query, one step per            *)
(* collaborator call                                                       *)

\* chat_query up to the history reset check of handle_chat_query
ChatQuery(t, question, user_id_str) ==
    /\ pc[t] = "idle"
    /\ LET user_id == UserIdOf(user_id_str)
           l == [IdleLocals EXCEPT !.question = question,
                                   !.user_id_str = user_id_str,
                                   !.before = session_memories]
       IN  IF ~Truthy(question)
           THEN /\ Finish(t, l, Reply(MsgNoQuestion, <<>>, NoCitation, 400))
                /\ last_grounded' = NoGrounded
                /\ UNCHANGED <<session_memories, after_reset>>
           ELSE IF ComponentMissing
           THEN /\ Finish(t, l, Reply(MsgUnavailable, <<>>, NoCitation, 500))
                /\ last_grounded' = NoGrounded
                /\ UNCHANGED <<session_memories, after_reset>>
           ELSE IF IsReset(question)
           THEN \* reset_chat_history(user_id)
                /\ session_memories' = reset_chat_history(session_memories, user_id)
                /\ after_reset' = after_reset \cup {user_id}
                /\ last_grounded' = NoGrounded
                /\ loc' = [Detached(loc, user_id) EXCEPT ![t] =
                              [l EXCEPT !.user_id = user_id,
                                        !.response = Reply(MsgReset, <<>>, NoCitation, 200)]]
                /\ pc' = [pc EXCEPT ![t] = "done"]
           ELSE /\ TotalTurns < MaxTurns
                /\ loc' = [loc EXCEPT ![t] = l]
                /\ pc' = [pc EXCEPT ![t] = "fetch_user"]
                /\ last_grounded' = IF last_grounded.user_id = user_id
                                    THEN last_grounded ELSE NoGrounded
                /\ UNCHANGED <<session_memories, after_reset>>
    /\ UNCHANGED <<components, ingestion>>

\* _get_user_and_memory up to get_chat_memory; db_ok: the profile store
\* answers (a PyMongoError leaves user_data empty)
FetchUser(t, db_ok) ==
    /\ pc[t] = "fetch_user"
    /\ LET l == loc[t]
           user_data == IF l.user_id_str # "" /\ db_ok
                        THEN UserProfile(l.user_id_str) ELSE NoUserData
       IN  loc' = [loc EXCEPT ![t] =
                      [l EXCEPT !.user_id = UserIdOf(l.user_id_str),
                                !.user_data = user_data,
                                !.calls = IF l.user_id_str # ""
                                          THEN Append(@, "users")
                                          ELSE @]]
    /\ pc' = [pc EXCEPT ![t] = "get_memory"]
    /\ UNCHANGED <<components, ingestion, session_memories, after_reset, last_grounded>>

\* get_chat_memory: if user_id not in session_memories
GetChatMemoryCheck(t) ==
    /\ pc[t] = "get_memory"
    /\ pc' = [pc EXCEPT ![t] = IF session_memories[loc[t].user_id].exists
                               THEN "return_memory" ELSE "create_memory"]
    /\ UNCHANGED <<components, ingestion, session_memories, loc, after_reset, last_grounded>>

\* get_chat_memory: session_memories[user_id] = ConversationBufferMemory(...)
GetChatMemoryCreate(t) ==
    /\ pc[t] = "create_memory"
    /\ session_memories' = [session_memories EXCEPT ![loc[t].user_id] =
                               [exists |-> TRUE, turns |-> <<>>]]
    /\ loc' = Detached(loc, loc[t].user_id)
    /\ pc' = [pc EXCEPT ![t] = "return_memory"]
    /\ UNCHANGED <<components, ingestion, after_reset, last_grounded>>

\* get_chat_memory: return session_memories[user_id], and the two reads of
\* chat_memory.buffer that follow
GetChatMemoryReturn(t) ==
    /\ pc[t] = "return_memory"
    /\ LET l == loc[t]
       IN  IF session_memories[l.user_id].exists
           THEN /\ loc' = [loc EXCEPT ![t] =
                              [l EXCEPT !.chat_memory = [attached |-> TRUE, turns |-> <<>>],
                                        !.history = Buffer(session_memories[l.user_id].turns)]]
                /\ pc' = [pc EXCEPT ![t] = "extract"]
                /\ UNCHANGED last_grounded
           ELSE \* KeyError
                /\ Finish(t, l, Reply(MsgUncaught, <<>>, NoCitation, 500))
                /\ last_grounded' = NoGrounded
    /\ UNCHANGED <<components, ingestion, session_memories, after_reset>>

\* where handle_chat_query goes with the resolver's list: the drug flow,
\* the User Details Direct Query Intercept or the General Chat Fallback
FlowOf(question, mongo_matches) ==
    IF mongo_matches # <<>> THEN "resolve"
    ELSE IF UserDetailQuery(question) THEN "profile"
    ELSE "general"

\* what extract_drug_from_text_ner may return: for each answer of the
\* generator (ner) and each set of names whose lookup raises (db_errors)
ExtractionResults ==
    UNION {{extract_drug_from_text_ner(ner, db_errors) :
               db_errors \in SUBSET (1..Len(DrugNames(ner.text)))} :
           ner \in NerOutcomes}

\* _extract_drugs_and_check_history up to the fallback condition
ExtractDrugs(t) ==
    /\ pc[t] = "extract"
    /\ \E mongo_matches \in ExtractionResults :
          LET l == loc[t]
              attempted == FallbackAttempted(l.question, mongo_matches)
          IN  /\ loc' = [loc EXCEPT ![t] =
                             [l EXCEPT !.calls = Append(@, "ner"),
                                       !.mongo_matches = mongo_matches,
                                       !.extracted = mongo_matches,
                                       !.fallback_attempted = attempted]]
              /\ pc' = [pc EXCEPT ![t] =
                           IF attempted THEN "fallback"
                           ELSE FlowOf(l.question, mongo_matches)]
    /\ UNCHANGED <<components, ingestion, session_memories, after_reset, last_grounded>>

\* the history fallback of _extract_drugs_and_check_history
CheckHistory(t, id_error) ==
    /\ pc[t] = "fallback"
    /\ LET l == loc[t]
           r == HistoryFallback(l.history, l.mongo_matches, id_error)
       IN  IF r.raised
           THEN /\ Finish(t, l, Reply(MsgUncaught, <<>>, NoCitation, 500))
                /\ last_grounded' = NoGrounded
           ELSE /\ loc' = [loc EXCEPT ![t] =
                              [l EXCEPT !.mongo_matches = r.matches,
                                        !.from_history = r.from_history]]
                /\ pc' = [pc EXCEPT ![t] = FlowOf(l.question, r.matches)]
                /\ UNCHANGED last_grounded
    /\ UNCHANGED <<components, ingestion, session_memories, after_reset>>

\* chat_memory.save_context(...): the turn goes to the memory the request
\* holds
SaveContext(t, l, turn) ==
    IF l.chat_memory.attached
    THEN /\ session_memories' =
                [session_memories EXCEPT ![l.user_id].turns = Append(@, turn)]
         /\ loc' = [loc EXCEPT ![t] = l]
    ELSE /\ loc' = [loc EXCEPT ![t] =
                       [l EXCEPT !.chat_memory.turns = Append(@, turn)]]
         /\ UNCHANGED session_memories

\* TryAnswer with save_context moved out of the try block: the turn is
\* stored whether or not the generator answered
TryAnswer_SavesFailure(outcome, question, citation, error_text) ==
    IF outcome.ok
    THEN LET response_text == Strip(outcome.text)
         IN  [reply |-> Reply(MsgAnswer, response_text, citation, 200),
              saved |-> <<Turn(question, response_text)>>]
    ELSE [reply |-> Reply(error_text, <<>>, NoCitation, 500),
          saved |-> <<Turn(question, <<>>)>>]

\* the try block of a final-answer call site: the reply, and the turns
\* save_context stores (one on success, none when the generator fails)
TryAnswer(outcome, question, citation, error_text) ==
    IF outcome.ok
    THEN LET response_text == Strip(outcome.text)
         IN  [reply |-> Reply(MsgAnswer, response_text, citation, 200),
              saved |-> <<Turn(question, response_text)>>]
    ELSE [reply |-> Reply(error_text, <<>>, NoCitation, 500), saved |-> <<>>]

\* a final-answer generator call and what follows it
Answer(t, outcome, site, history_for_prompt, citation, error_text) ==
    LET r == TryAnswer(outcome, loc[t].question, citation, error_text)
        l == [loc[t] EXCEPT !.calls = Append(@, site),
                            !.generator_failed = ~outcome.ok,
                            !.prompt_history = history_for_prompt,
                            !.response = r.reply]
    IN  /\ pc' = [pc EXCEPT ![t] = "done"]
        /\ IF r.saved = <<>>
           THEN /\ loc' = [loc EXCEPT ![t] = l]
                /\ UNCHANGED session_memories
           ELSE SaveContext(t, l, r.saved[1])
        /\ last_grounded' =
               IF site = "grounded" /\ outcome.ok
               THEN [user_id |-> l.user_id,
                     ids |-> SubSeq([i \in 1..Len(l.final_rag_targets) |->
                                        l.final_rag_targets[i].drugbank_id],
                                    1, Len(l.final_rag_targets))]
               ELSE NoGrounded
        /\ UNCHANGED <<components, ingestion, after_reset>>

\* the User Details Direct Query Intercept
ProfileAnswer(t, outcome) ==
    /\ pc[t] = "profile"
    /\ Answer(t, outcome, "profile", loc[t].history, NoCitation, MsgProfileError)

\* the General Chat Fallback
GeneralAnswer(t, outcome) ==
    /\ pc[t] = "general"
    /\ Answer(t, outcome, "general", loc[t].history, NoCitation, MsgGeneralError)

\* the drug flow from the reorder correction to the choice of the
\* retrieval filter, the classifier's generator call left to ClassifyIntent
\* db_errors: the prescriptions whose registry lookup raises
ResolveInteractions(t) ==
    /\ pc[t] = "resolve"
    /\ LET l == loc[t]
           mongo_matches == Reorder(l.mongo_matches, l.question)
           primary_match == mongo_matches[1]
       IN
       \E db_errors \in SUBSET (1..Len(l.user_data.prescriptions)) :
       \E secondary_drugs_to_check \in
               {get_secondary_drugs_for_check(mongo_matches, primary_match,
                                              l.user_data, db_errors)} :
       \E found \in {check_interactions(primary_match, secondary_drugs_to_check)} :
       LET m == [l EXCEPT !.mongo_matches = mongo_matches,
                          !.primary_match = primary_match,
                          !.secondary_drugs_to_check = secondary_drugs_to_check,
                          !.direct_interaction_context = found.context,
                          !.context_text = found.context,
                          !.sources_list = found.sources,
                          !.secondary_for_rag = found.secondary_for_rag,
                          !.final_rag_targets =
                              FinalRagTargets(primary_match, found.secondary_for_rag)]
       IN  IF ~Truthy(Get(primary_match.drugbank_id))
           THEN Finish(t, [l EXCEPT !.mongo_matches = mongo_matches,
                                    !.primary_match = primary_match],
                       Reply(MsgMissingId, Fmt(GetDefault(primary_match.name, S_NA)),
                             NoCitation, 200))
           ELSE IF found.context # <<>> \/ Len(mongo_matches) > 1
           THEN /\ loc' = [loc EXCEPT ![t] =
                              [m EXCEPT !.rag_intent = "INTERACTION",
                                        !.exclude_interactions = FALSE]]
                /\ pc' = [pc EXCEPT ![t] = "retrieve"]
           ELSE /\ loc' = [loc EXCEPT ![t] = m]
                /\ pc' = [pc EXCEPT ![t] = "classify"]
    /\ last_grounded' = NoGrounded
    /\ UNCHANGED <<components, ingestion, session_memories, after_reset>>

\* the flag set for every intent but INTERACTION
ExcludeInteractions_NotInteraction(rag_intent) == rag_intent # "INTERACTION"

\* exclude_interactions = (rag_intent == "GENERAL_INFO")
ExcludeInteractions(rag_intent) == rag_intent = "GENERAL_INFO"

\* rag_intent = _classify_rag_intent(question, llm)
ClassifyIntent(t, outcome) ==
    /\ pc[t] = "classify"
    /\ LET l == loc[t]
           rag_intent == classify_rag_intent(l.question, outcome)
       IN  loc' = [loc EXCEPT ![t] =
                      [l EXCEPT !.rag_intent = rag_intent,
                                !.exclude_interactions = ExcludeInteractions(rag_intent),
                                !.calls = IF FastPath(l.question) THEN @
                                          ELSE Append(@, "classify")]]
    /\ pc' = [pc EXCEPT ![t] = "retrieve"]
    /\ UNCHANGED <<components, ingestion, session_memories, after_reset, last_grounded>>

\* one round of the loop over final_rag_targets and, after the last one,
\* the final context check
Retrieve(t, encode_ok, query_ok) ==
    /\ pc[t] = "retrieve"
    /\ LET l == loc[t]
           drug_doc == l.final_rag_targets[Len(l.retrievals) + 1]
           doc_id == Get(drug_doc.drugbank_id)
           r == get_drug_context_rag_docs(drug_doc, l.exclude_interactions,
                                          encode_ok, query_ok)
           m == IF Truthy(doc_id) /\ doc_id \notin l.unique_rag_ids
                THEN [l EXCEPT
                        !.context_text = @ \o r.context,
                        !.sources_list = @ \o [i \in 1..Len(r.docs) |-> r.docs[i].id],
                        !.unique_rag_ids = @ \cup {doc_id},
                        !.retrievals = Append(@,
                            [drug_id |-> doc_id, retrieved |-> TRUE,
                             exclude_interactions |-> l.exclude_interactions,
                             docs |-> r.docs])]
                ELSE [l EXCEPT
                        !.retrievals = Append(@,
                            [drug_id |-> doc_id, retrieved |-> FALSE,
                             exclude_interactions |-> l.exclude_interactions,
                             docs |-> <<>>])]
       IN  IF Len(m.retrievals) < Len(l.final_rag_targets)
           THEN /\ loc' = [loc EXCEPT ![t] = m]
                /\ pc' = pc
           ELSE IF m.context_text = <<>>
           THEN Finish(t, m, Reply(MsgNoInformation,
                                   Fmt(GetDefault(l.primary_match.name, S_NA)),
                                   NoCitation, 200))
           ELSE /\ loc' = [loc EXCEPT ![t] = m]
                /\ pc' = [pc EXCEPT ![t] = "answer"]
    /\ UNCHANGED <<components, ingestion, session_memories, after_reset, last_grounded>>

\* the grounded prompt, its generator call, the turn and the citation
GroundedAnswer(t, outcome) ==
    /\ pc[t] = "answer"
    /\ LET l == loc[t]
       IN  Answer(t, outcome, "grounded",
                  HistoryForPrompt(l.history, l.direct_interaction_context),
                  SourceCitation(l.primary_match, l.secondary_for_rag, l.sources_list),
                  MsgRagError)

\* the reply is sent; the thread takes the next request
Return(t) ==
    /\ pc[t] = "done"
    /\ pc' = [pc EXCEPT ![t] = "idle"]
    /\ loc' = [loc EXCEPT ![t] = IdleLocals]
    /\ after_reset' = IF loc[t].user_id # "" /\ loc[t].response.text # MsgReset
                      THEN after_reset \ {loc[t].user_id}
                      ELSE after_reset
    /\ UNCHANGED <<components, ingestion, session_memories, last_grounded>>

Next ==
    \E t \in Threads :
        \/ \E question \in Questions, user_id_str \in UserIdHeaders :
               ChatQuery(t, question, user_id_str)
        \/ \E db_ok \in BOOLEAN : FetchUser(t, db_ok)
        \/ GetChatMemoryCheck(t)
        \/ GetChatMemoryCreate(t)
        \/ GetChatMemoryReturn(t)
        \/ ExtractDrugs(t)
        \/ \E id_error \in BOOLEAN : CheckHistory(t, id_error)
        \/ \E outcome \in AnswerOutcomes : ProfileAnswer(t, outcome)
        \/ \E outcome \in AnswerOutcomes : GeneralAnswer(t, outcome)
        \/ ResolveInteractions(t)
        \/ \E outcome \in ClassifyOutcomes : ClassifyIntent(t, outcome)
        \/ \E encode_ok \in BOOLEAN, query_ok \in BOOLEAN :
               Retrieve(t, encode_ok, query_ok)
        \/ \E outcome \in AnswerOutcomes : GroundedAnswer(t, outcome)
        \/ Return(t)

Spec == Init /\ [][Next]_vars

-----------------------------------------------------------------------------
(* Properties of the request handler                                       *)

\* the request of thread t has been answered
Done(t) == pc[t] = "done"

\* the request of thread t made the call named site
Called(t, site) == \E i \in 1..Len(loc[t].calls) : loc[t].calls[i] = site

\* the three final-answer generator call sites
FinalSites == {"profile", "general", "grounded"}

\* the turns the session of the request's user held when the request came
TurnsBefore(t) == loc[t].before[UserIdOf(loc[t].user_id_str)].turns

\* the turns the session of the request's user holds now
TurnsNow(t) == session_memories[UserIdOf(loc[t].user_id_str)].turns

\* some required collaborator is unset
AnyUnavailable ==
    ~(components.llm /\ components.embedding_model
        /\ components.chroma_collection /\ components.drug_collection)

\* C1: History isolation.  In every request that makes the grounded-answer
\* generator call with a structured interaction finding, the history field
\* of the prompt is empty whatever the session holds, and when the call
\* succeeds the session holds its prior turns plus exactly one new turn,
\* the one of this request.
C1_HistoryIsolation ==
    \A t \in Threads :
        (Called(t, "grounded") /\ loc[t].direct_interaction_context # <<>>) =>
            /\ loc[t].prompt_history = <<>>
            /\ ~loc[t].generator_failed =>
                 /\ Len(TurnsNow(t)) = Len(TurnsBefore(t)) + 1
                 /\ SubSeq(TurnsNow(t), 1, Len(TurnsBefore(t))) = TurnsBefore(t)
                 /\ TurnsNow(t)[Len(TurnsNow(t))].input =
                        <<"U","s","e","r",":"," ">> \o loc[t].question

\* a grounded answer with a finding was generated for a user whose session
\* already held a turn
C1_Witness ==
    \E t \in Threads :
        /\ Called(t, "grounded")
        /\ loc[t].direct_interaction_context # <<>>
        /\ ~loc[t].generator_failed
        /\ loc[t].history # <<>>
        /\ Len(TurnsBefore(t)) >= 1

\* the fixed text of each final-answer call site for a failed generator call
TryAgainText(site) ==
    IF site = "profile" THEN MsgProfileError
    ELSE IF site = "general" THEN MsgGeneralError
    ELSE MsgRagError

\* C2: at each of the three final-answer call sites, a failed generator
\* invocation makes the request return that site's fixed "Please try again."
\* text with status 500, and the history of the user's session is exactly
\* what it was before the request.
C2_FailedCallNotSaved ==
    \A t \in Threads :
        (Done(t) /\ loc[t].generator_failed) =>
            /\ loc[t].calls[Len(loc[t].calls)] \in FinalSites
            /\ loc[t].response =
                   Reply(TryAgainText(loc[t].calls[Len(loc[t].calls)]),
                         <<>>, NoCitation, 500)
            /\ TurnsNow(t) = TurnsBefore(t)
            /\ Buffer(TurnsNow(t)) = loc[t].history

\* the grounded-answer call failed for a user whose session held a turn
C2_Witness ==
    \E t \in Threads :
        /\ Done(t)
        /\ loc[t].generator_failed
        /\ Called(t, "grounded")
        /\ Len(TurnsBefore(t)) >= 1

\* C3: in the drug flow, when the interaction check gives no finding and
\* retrieval gives no passage for any target drug, the reply is the fixed
\* no-information text with status 200, no final-answer generator call is
\* made and the turns of the user's session are unchanged.
C3_NoInformation ==
    \A t \in Threads :
        (/\ Done(t)
         /\ loc[t].final_rag_targets # <<>>
         /\ Len(loc[t].retrievals) = Len(loc[t].final_rag_targets)
         /\ loc[t].direct_interaction_context = <<>>
         /\ loc[t].sources_list = <<>>) =>
            /\ loc[t].response =
                   Reply(MsgNoInformation, loc[t].primary_match.name, NoCitation, 200)
            /\ \A site \in FinalSites : ~Called(t, site)
            /\ TurnsNow(t) = TurnsBefore(t)

\* two target drugs, no finding, no passage, for a user whose session held
\* a turn
C3_Witness ==
    \E t \in Threads :
        /\ Done(t)
        /\ Len(loc[t].final_rag_targets) = 2
        /\ Len(loc[t].retrievals) = 2
        /\ loc[t].direct_interaction_context = <<>>
        /\ loc[t].sources_list = <<>>
        /\ Len(TurnsBefore(t)) >= 1

\* C4: a reset request (the question lower-cased and trimmed is the reset
\* phrase), whatever the session holds, leaves the user with an empty
\* history and returns the fixed confirmation with status 200, the same for
\* a repeated reset; and the user's next request that is not a reset reads
\* an empty history.
C4_ResetIdempotent ==
    \A t \in Threads :
        /\ (Done(t) /\ ~AnyUnavailable /\ IsReset(loc[t].question)) =>
               /\ loc[t].response = Reply(MsgReset, <<>>, NoCitation, 200)
               /\ Buffer(TurnsNow(t)) = <<>>
        /\ (/\ pc[t] # "idle"
            /\ ~IsReset(loc[t].question)
            /\ UserIdOf(loc[t].user_id_str) \in after_reset) =>
               /\ loc[t].history = <<>>
               /\ pc[t] = "extract" => Buffer(TurnsNow(t)) = <<>>

\* a reset was answered for a user whose session held turns
C4_Witness ==
    \E t \in Threads :
        /\ Done(t)
        /\ IsReset(loc[t].question)
        /\ loc[t].response.status = 200
        /\ Len(TurnsBefore(t)) >= 1

\* C5: when a required collaborator is unset, every question, the reset
\* phrase included, is answered with the fixed unavailable text; no
\* collaborator is called and no session is created, cleared or changed.
C5_Unavailable ==
    \A t \in Threads :
        (AnyUnavailable /\ pc[t] # "idle") =>
            /\ Done(t)
            /\ Truthy(loc[t].question) =>
                   loc[t].response = Reply(MsgUnavailable, <<>>, NoCitation, 500)
            /\ loc[t].calls = <<>>
            /\ loc[t].retrievals = <<>>
            /\ session_memories = loc[t].before
            /\ \A u \in UserIds : session_memories[u] = NoSession

\* the reset phrase was answered while a collaborator is unset
C5_Witness ==
    \E t \in Threads :
        /\ AnyUnavailable
        /\ Done(t)
        /\ IsReset(loc[t].question)
        /\ loc[t].response.status = 500

\* the drugs the Passage Retriever was run for in the request of thread t
RetrievedDrugs(t) ==
    {loc[t].retrievals[i].drug_id :
        i \in {i \in 1..Len(loc[t].retrievals) : loc[t].retrievals[i].retrieved}}

\* C7: interaction evidence is never hidden when more than one drug is in
\* play: in every request in which the Passage Retriever is run for two
\* distinct drugs, the exclude_interactions flag of every retrieval of the
\* request is false.
C7_NoHiddenEvidence ==
    \A t \in Threads :
        Cardinality(RetrievedDrugs(t)) >= 2 =>
            \A i \in 1..Len(loc[t].retrievals) :
                ~loc[t].retrievals[i].exclude_interactions

\* C8: in the drug flow the exclude_interactions flag passed to the Passage
\* Retriever is true if and only if exactly one drug was resolved, there is
\* no structured finding and the Intent Classifier returned GENERAL_INFO.
C8_ExcludeFlag ==
    \A t \in Threads :
        \A i \in 1..Len(loc[t].retrievals) :
            loc[t].retrievals[i].retrieved =>
                (loc[t].retrievals[i].exclude_interactions <=>
                    /\ Len(loc[t].mongo_matches) = 1
                    /\ loc[t].direct_interaction_context = <<>>
                    /\ Called(t, "classify")
                    /\ loc[t].rag_intent = "GENERAL_INFO")

\* a retrieval ran with the flag set
C8_Witness ==
    \E t \in Threads :
        \E i \in 1..Len(loc[t].retrievals) :
            /\ loc[t].retrievals[i].retrieved
            /\ loc[t].retrievals[i].exclude_interactions

-----------------------------------------------------------------------------
(* The Entity Resolver alone, on questions, histories and generator        *)
(* outputs drawn from sets                                                 *)

\* the most citation lines a drawn history holds
MaxCitations == 3

\* a drug line of the source citation:
\* f"**Primary Drug:** {primary_name} (ID: {primary_id})\n"
CitationLine(match_type, name, db_id) ==
    <<"*","*">> \o match_type \o <<":","*","*"," ">> \o name
        \o <<" ","(","I","D",":"," ">> \o db_id \o <<")","\n">>

\* citation lines of three registry drugs and of an id the registry lacks
ResolverCitations ==
    { CitationLine(S_PrimaryDrug, Aspirin, DB1),
      CitationLine(S_SecondaryDrug, Warfarin, DB2),
      CitationLine(S_PrimaryDrug, Ibuprofen, DB3),
      CitationLine(S_PrimaryDrug, <<"Z">>, <<"D","B","9">>) }

\* the texts made of at most n citation lines
RECURSIVE CitationTexts(_)
CitationTexts(n) ==
    IF n = 0 THEN {<<>>}
    ELSE LET shorter == CitationTexts(n - 1)
         IN  shorter \cup {c \o h : c \in ResolverCitations, h \in shorter}

\* chat_memory.buffer of a session whose one turn's answer holds the lines
ResolverHistories ==
    {IF h = <<>> THEN <<>> ELSE Buffer(<<Turn(<<"h","i">>, h)>>) :
        h \in CitationTexts(MaxCitations)}

\* a vague follow-up, a question that is not vague, and two questions
\* naming two drugs, one of them with the keyword "take"
ResolverQuestions ==
    { <<"w","h","a","t"," ","a","b","o","u","t"," ","i","t","?">>,
      <<"a","n","d"," ","I","b","u","p","r","o","f","e","n","?">>,
      <<"t","a","k","e"," ","W","a","r","f","a","r","i","n"," ",
        "a","n","d"," ","a","s","p","i","r","i","n">>,
      <<"a","s","p","i","r","i","n"," ","w","i","t","h"," ",
        "W","a","r","f","a","r","i","n","?">> }

\* generator outputs: a failure, four names of three drugs, a drug without
\* id, one drug, two drugs in the other order, a drug and the synonym of
\* the document without a name
ResolverNerOutcomes ==
    { LlmError,
      LlmText(<<"A","s","p","i","r","i","n",","," ","A","S","A",","," ",
                "W","a","r","f","a","r","i","n",","," ",
                "I","b","u","p","r","o","f","e","n">>),
      LlmText(<<"K","a","v","a">>),
      LlmText(Ibuprofen),
      LlmText(<<"w","a","r","f","a","r","i","n",","," ","A","s","p","i","r","i","n">>),
      LlmText(<<"A","s","p","i","r","i","n",","," ","Z","e","d">>) }

\* the positions of the names whose registry lookup raises
ResolverDbErrors == {{}, {1, 2}, {1, 2, 3}}

InitResolver ==
    /\ components = [llm |-> TRUE, embedding_model |-> TRUE,
                     chroma_collection |-> TRUE, drug_collection |-> TRUE]
    /\ session_memories = [u \in UserIds |-> NoSession]
    /\ after_reset = {}
    /\ last_grounded = NoGrounded
    /\ ingestion = NoIngestion
    /\ pc = [t \in Threads |-> "resolve_entities"]
    /\ \E question \in ResolverQuestions, history \in ResolverHistories :
           loc = [t \in Threads |->
                     [IdleLocals EXCEPT !.question = question, !.history = history]]

\* _extract_drugs_and_check_history up to its fallback condition:
\* mongo_matches = extract_drug_from_text_ner(question, llm)
ResolveFromQuestion(t) ==
    /\ pc[t] = "resolve_entities"
    /\ \E ner \in ResolverNerOutcomes, db_errors \in ResolverDbErrors :
          LET l == loc[t]
              mongo_matches == extract_drug_from_text_ner(ner, db_errors)
              attempted == FallbackAttempted(l.question, mongo_matches)
          IN  /\ loc' = [loc EXCEPT ![t] =
                             [l EXCEPT !.mongo_matches = mongo_matches,
                                       !.extracted = mongo_matches,
                                       !.fallback_attempted = attempted]]
              /\ pc' = [pc EXCEPT ![t] =
                           IF attempted THEN "resolve_fallback"
                           ELSE "entities_resolved"]
    /\ UNCHANGED <<components, ingestion, session_memories, after_reset, last_grounded>>

\* the history fallback of _extract_drugs_and_check_history
ResolveFromHistory(t, id_error) ==
    /\ pc[t] = "resolve_fallback"
    /\ LET l == loc[t]
           r == HistoryFallback(l.history, l.mongo_matches, id_error)
       IN  IF r.raised
           THEN Finish(t, l, Reply(MsgUncaught, <<>>, NoCitation, 500))
           ELSE /\ loc' = [loc EXCEPT ![t] =
                              [l EXCEPT !.mongo_matches = r.matches,
                                        !.from_history = r.from_history]]
                /\ pc' = [pc EXCEPT ![t] = "entities_resolved"]
    /\ UNCHANGED <<components, ingestion, session_memories, after_reset, last_grounded>>

\* the start of the drug flow of handle_chat_query: primary_match and the
\* reorder correction
ReorderCorrection(t) ==
    /\ pc[t] = "entities_resolved"
    /\ loc[t].mongo_matches # <<>>
    /\ LET l == loc[t]
           mongo_matches == Reorder(l.mongo_matches, l.question)
       IN  loc' = [loc EXCEPT ![t] =
                      [l EXCEPT !.mongo_matches = mongo_matches,
                                !.primary_match = mongo_matches[1]]]
    /\ pc' = [pc EXCEPT ![t] = "reordered"]
    /\ UNCHANGED <<components, ingestion, session_memories, after_reset, last_grounded>>

NextResolver ==
    \E t \in Threads :
        \/ ResolveFromQuestion(t)
        \/ \E id_error \in BOOLEAN : ResolveFromHistory(t, id_error)
        \/ ReorderCorrection(t)

SpecResolver == InitResolver /\ [][NextResolver]_vars

\* C6: the list the Entity Resolver returns, from current-question
\* extraction or from the history fallback, has length 0, 1 or 2 and its
\* records have pairwise distinct drugbank ids.
C6_AtMostTwoDistinct ==
    \A t \in Threads :
        LET mongo_matches == loc[t].mongo_matches
        IN  /\ Len(mongo_matches) <= 2
            /\ \A i, j \in 1..Len(mongo_matches) :
                   i # j => Get(mongo_matches[i].drugbank_id)
                                # Get(mongo_matches[j].drugbank_id)

\* the fallback returned two records from a history that cites three
\* registry drugs
C6_Witness ==
    \E t \in Threads :
        /\ pc[t] = "entities_resolved"
        /\ loc[t].from_history
        /\ Len(loc[t].mongo_matches) = 2
        /\ Cardinality({m.db_id : m \in Range(CitationMatches(SanitizedHistory(loc[t].history)))}
                           \cap {DB1, DB2, DB3}) = 3

-----------------------------------------------------------------------------
(* The Interaction Resolver alone, on primary drugs and candidate lists    *)
(* drawn from sets                                                         *)

\* the most interaction records a drawn primary drug holds
MaxInteractions == 2

\* the most candidates of a drawn candidate list
MaxCandidates == 3

\* the sequences of at most n elements of S
SeqsUpTo(S, n) == UNION {[1..k -> S] : k \in 0..n}

\* interaction records: of two drugs, with a description, an empty one, a
\* null one or none, and a record without drugbank_id
InteractionRecords ==
    {[drugbank_id |-> id, description |-> d] :
        id \in {DB2, DB3},
        d \in {<<"b","l","e","e","d","i","n","g">>, <<>>, None, Absent}}
      \cup {[drugbank_id |-> Absent, description |-> <<"r","a","s","h">>]}

\* primary drugs: Aspirin with each list of interaction records
PrimaryDrugs ==
    {[drugbank_id |-> DB1, name |-> Aspirin, synonyms |-> <<>>, products |-> <<>>,
      drug_interactions |-> ixs] : ixs \in SeqsUpTo(InteractionRecords, MaxInteractions)}

\* candidate drugs: Warfarin, Ibuprofen, and another drug named Warfarin
CandidateDrugs ==
    {[drugbank_id |-> DB2, name |-> Warfarin, synonyms |-> <<>>, products |-> <<>>,
      drug_interactions |-> <<>>],
     [drugbank_id |-> DB3, name |-> Ibuprofen, synonyms |-> <<>>, products |-> <<>>,
      drug_interactions |-> <<>>],
     [drugbank_id |-> <<"D","B","4">>, name |-> Warfarin, synonyms |-> <<>>,
      products |-> <<>>, drug_interactions |-> <<>>]}

\* candidate lists as _get_secondary_drugs_for_check builds them: ids set
\* and pairwise distinct
CandidateLists ==
    {c \in SeqsUpTo(CandidateDrugs, MaxCandidates) :
        \A i, j \in 1..Len(c) : i # j => c[i].drugbank_id # c[j].drugbank_id}

InitInteractions ==
    /\ components = [llm |-> TRUE, embedding_model |-> TRUE,
                     chroma_collection |-> TRUE, drug_collection |-> TRUE]
    /\ session_memories = [u \in UserIds |-> NoSession]
    /\ after_reset = {}
    /\ last_grounded = NoGrounded
    /\ ingestion = NoIngestion
    /\ pc = [t \in Threads |-> "check_interactions"]
    /\ \E primary_match \in PrimaryDrugs, candidates \in CandidateLists :
           loc = [t \in Threads |->
                     [IdleLocals EXCEPT !.primary_match = primary_match,
                                        !.secondary_drugs_to_check = candidates]]

\* direct_interaction_context, sources_list, secondary_for_rag =
\*     _check_interactions(primary_match, secondary_drugs_to_check)
CheckInteractions(t) ==
    /\ pc[t] = "check_interactions"
    /\ LET l == loc[t]
           found == check_interactions(l.primary_match, l.secondary_drugs_to_check)
       IN  loc' = [loc EXCEPT ![t] =
                      [l EXCEPT !.direct_interaction_context = found.context,
                                !.sources_list = found.sources,
                                !.secondary_for_rag = found.secondary_for_rag]]
    /\ pc' = [pc EXCEPT ![t] = "interactions_checked"]
    /\ UNCHANGED <<components, ingestion, session_memories, after_reset, last_grounded>>

NextInteractions == \E t \in Threads : CheckInteractions(t)

SpecInteractions == InitInteractions /\ [][NextInteractions]_vars

\* the ids the interaction records of a primary drug name
InteractionIds(primary_match) ==
    {Get(primary_match.drug_interactions[i].drugbank_id) :
        i \in 1..Len(primary_match.drug_interactions)}

\* the positions of the candidates whose id the primary's records name
Matching(primary_match, candidates) ==
    {k \in 1..Len(candidates) :
        candidates[k].drugbank_id \in InteractionIds(primary_match)}

\* C9: when a candidate's id occurs in the primary's interactions list,
\* _check_interactions returns a finding whose secondary is the first
\* candidate, in candidate order, with such an id; the candidates that do
\* not match do not change which one is reported (the result is that of the
\* matching candidates alone), and a candidate that only shares the name of
\* a listed drug is not reported.
C9_FirstMatchingCandidate ==
    \A t \in Threads :
        LET l == loc[t]
            candidates == l.secondary_drugs_to_check
            matching == Matching(l.primary_match, candidates)
            Matches(c) == c.drugbank_id \in InteractionIds(l.primary_match)
            alone == check_interactions(l.primary_match, SelectSeq(candidates, Matches))
        IN  (pc[t] = "interactions_checked" /\ matching # {}) =>
                /\ l.direct_interaction_context # <<>>
                /\ l.secondary_for_rag = candidates[Min(matching)]
                /\ l.direct_interaction_context[1].secondary_id
                       = candidates[Min(matching)].drugbank_id
                /\ l.direct_interaction_context = alone.context
                /\ l.secondary_for_rag = alone.secondary_for_rag

\* three candidates: the first, named like a listed drug, does not match,
\* the other two both match
C9_Witness ==
    \E t \in Threads :
        /\ pc[t] = "interactions_checked"
        /\ Len(loc[t].secondary_drugs_to_check) = 3
        /\ Matching(loc[t].primary_match, loc[t].secondary_drugs_to_check) = {2, 3}
        /\ loc[t].secondary_drugs_to_check[1].name = Warfarin
        /\ loc[t].direct_interaction_context # <<>>

\* C10: whenever the primary's interactions list holds a record for a
\* candidate's id, the finding is reported with a non-empty description:
\* when the records of that id have a description that is absent, empty or
\* null, the finding carries the "details are missing" placeholder; the
\* finding is never dropped.
C10_DetailsMissing ==
    \A t \in Threads :
        LET l == loc[t]
            candidates == l.secondary_drugs_to_check
            matching == Matching(l.primary_match, candidates)
            records == {r \in Range(l.primary_match.drug_interactions) :
                           Get(r.drugbank_id) = candidates[Min(matching)].drugbank_id}
        IN  (pc[t] = "interactions_checked" /\ matching # {}) =>
                /\ l.direct_interaction_context # <<>>
                /\ l.direct_interaction_context[1].description # <<>>
                /\ (\A r \in records : r.description \in {Absent, <<>>, None}) =>
                       l.direct_interaction_context[1].description = S_NoDescription

-----------------------------------------------------------------------------
(* Properties of consecutive requests                                      *)

\* the drugbank ids of a list of documents, in order
IdSeq(docs) == SubSeq([i \in 1..Len(docs) |-> docs[i].drugbank_id], 1, Len(docs))

\* C11: entity context is recovered across turns.  When the latest handled
\* request ended with a successfully generated grounded answer about primary
\* drug A (and secondary B, if any) and the same user's next request
\* extracts no drug from its question, the Entity Resolver returns A (and B)
\* from the session history, so that the request enters the drug flow and
\* not the profile or the general-chat path.
C11_ContextRecovered ==
    \A t \in Threads :
        (/\ pc[t] \in {"resolve", "profile", "general"}
         /\ last_grounded.user_id = loc[t].user_id
         /\ loc[t].extracted = <<>>) =>
            /\ pc[t] = "resolve"
            /\ loc[t].from_history
            /\ IdSeq(loc[t].mongo_matches) = last_grounded.ids

-----------------------------------------------------------------------------
(* Properties of the history fallback                                      *)

\* the citation markers of a history, as the fallback reads them
CitedIn(history) == CitationMatches(SanitizedHistory(history))

\* the positions of the markers whose id the registry holds
Fetchable(citation_matches) ==
    {i \in 1..Len(citation_matches) : find_one_by_id(citation_matches[i].db_id) # NoDoc}

\* the position of the most recent marker of a drug id the registry holds
LastCited(citation_matches, db_id) ==
    Max({i \in Fetchable(citation_matches) : citation_matches[i].db_id = db_id})

\* C12: the history fallback is attempted exactly when extraction yields no
\* drug, or the question is a vague follow-up and fewer than two drugs were
\* extracted.  When the fallback yields a record, the returned list is the
\* fallback's list, made of drugs the history cites, and holds no extracted
\* drug that the history does not cite; otherwise the returned list is the
\* extraction result.
C12_FallbackReplaces ==
    \A t \in Threads :
        LET l == loc[t]
            cited == {CitedIn(l.history)[i].db_id : i \in Fetchable(CitedIn(l.history))}
            condition == \/ l.extracted = <<>>
                         \/ VagueFollowUp(l.question) /\ Len(l.extracted) < 2
        IN  /\ pc[t] = "resolve_fallback" => condition /\ l.fallback_attempted
            /\ pc[t] = "entities_resolved" =>
                /\ l.fallback_attempted <=> condition
                /\ l.from_history <=> (l.fallback_attempted /\ cited # {})
                /\ IF l.from_history
                   THEN /\ l.mongo_matches # <<>>
                        /\ \A i \in 1..Len(l.mongo_matches) :
                               l.mongo_matches[i].drugbank_id \in cited
                   ELSE l.mongo_matches = l.extracted

\* a vague follow-up from which one drug was extracted, replaced by the
\* drugs of a history that does not cite it
C12_Witness ==
    \E t \in Threads :
        /\ pc[t] = "entities_resolved"
        /\ loc[t].from_history
        /\ Len(loc[t].extracted) = 1
        /\ loc[t].extracted[1].drugbank_id \notin IdsOf(loc[t].mongo_matches)

\* C13: the history fallback returns the records of the up to two most
\* recently cited distinct drug ids the registry holds, and when it returns
\* two the one at index 0 is the drug whose most recent marker is "Primary
\* Drug" and the one at index 1 is the drug cited as "Secondary Drug".
C13_PrimaryBeforeSecondary ==
    \A t \in Threads :
        LET l == loc[t]
            citation_matches == CitedIn(l.history)
            cited == {citation_matches[i].db_id : i \in Fetchable(citation_matches)}
            recent == {d \in cited :
                          Cardinality({e \in cited :
                              LastCited(citation_matches, e)
                                  > LastCited(citation_matches, d)}) < 2}
        IN  (pc[t] = "entities_resolved" /\ l.from_history) =>
                /\ IdsOf(l.mongo_matches) = recent
                /\ Len(l.mongo_matches) = 2 =>
                    /\ citation_matches[LastCited(citation_matches,
                           l.mongo_matches[1].drugbank_id)].match_type = S_PrimaryDrug
                    /\ citation_matches[LastCited(citation_matches,
                           l.mongo_matches[2].drugbank_id)].match_type = S_SecondaryDrug

-----------------------------------------------------------------------------
(* Properties of the reorder correction                                    *)

\* the registry documents that have a name
NamedDrugs == {d \in Range(Registry) : d.name # Absent /\ d.name # None}

\* the question names drug a, then "and" or "with", then drug b
JoinedIn(question, a, b) ==
    \E word \in {<<"a","n","d">>, <<"w","i","t","h">>} :
        Contains(Lower(question),
                 Lower(a.name) \o <<" ">> \o word \o <<" ">> \o Lower(b.name))

\* C14: when the question names two known distinct drugs joined by "and"
\* or "with" and extraction found both, in either order, the pipeline
\* resolves exactly those two records and after the reorder correction the
\* primary drug is the one named first in the question.
C14_FirstNamedIsPrimary ==
    \A t \in Threads :
        \A a, b \in NamedDrugs :
            (/\ pc[t] = "reordered"
             /\ a.drugbank_id # b.drugbank_id
             /\ JoinedIn(loc[t].question, a, b)
             /\ loc[t].extracted \in {<<a, b>>, <<b, a>>}) =>
                 /\ loc[t].mongo_matches = <<a, b>>
                 /\ loc[t].primary_match = a

\* the keyword test of the reorder correction
ReorderKeyword(question) ==
    \/ Contains(Lower(question), <<"t","a","k","e">>)
    \/ Contains(Lower(question), <<"i","n","t","e","r","a","c","t","i","o","n">>)

\* the name of a document occurs in the question
NameOccurs(doc, question) ==
    /\ doc.name # Absent
    /\ doc.name # None
    /\ Contains(Lower(question), Lower(doc.name))

\* C15: the reorder correction swaps primary and secondary only when two
\* drugs were resolved, the question contains "take" or "interaction" and
\* the second drug's name occurs in the lower-cased question before the
\* first drug's name (or the first drug's name does not occur); a drug
\* whose name does not occur in the question, or that has no name, is never
\* made primary by the swap, and otherwise the order is unchanged.
C15_SwapOnlyForNamedDrug ==
    [][\A t \in Threads :
          (pc[t] = "entities_resolved" /\ pc'[t] = "reordered") =>
              LET before == loc[t].mongo_matches
                  after == loc'[t].mongo_matches
                  q == loc[t].question
              IN  IF after # before
                  THEN /\ Len(before) = 2
                       /\ after = <<before[2], before[1]>>
                       /\ ReorderKeyword(q)
                       /\ NameOccurs(before[2], q)
                       /\ \/ ~NameOccurs(before[1], q)
                          \/ Find(Lower(q), Lower(before[2].name))
                                 < Find(Lower(q), Lower(before[1].name))
                  ELSE TRUE]_vars

-----------------------------------------------------------------------------
(* The drug flow alone: from resolved drugs to the grounded answer         *)

\* questions without a keyword of the classifier, with "safe with", and
\* with "interact"
FlowQuestions ==
    { <<"d","o","s","e","?">>,
      <<"s","a","f","e"," ","w","i","t","h"," ","f","o","o","d","?">>,
      <<"I","n","t","e","r","a","c","t","i","o","n","s","?">> }

\* what the Entity Resolver may hand to the drug flow: one or two registry
\* documents that have a drugbank id
FlowMatches ==
    {<<Registry[i]>> : i \in {k \in 1..Len(Registry) :
                                 Truthy(Get(Registry[k].drugbank_id))}}
        \cup {<<Registry[1], Registry[2]>>, <<Registry[2], Registry[1]>>,
              <<Registry[4], Registry[5]>>}

\* the request holds the memory of its user's session, created by
\* get_chat_memory, and is about to enter the drug flow
InitDrugFlow ==
    /\ components = [llm |-> TRUE, embedding_model |-> TRUE,
                     chroma_collection |-> TRUE, drug_collection |-> TRUE]
    /\ after_reset = {}
    /\ last_grounded = NoGrounded
    /\ ingestion = NoIngestion
    /\ pc = [t \in Threads |-> "resolve"]
    /\ \E question \in FlowQuestions, mongo_matches \in FlowMatches,
          user_id_str \in UserIdHeaders :
        /\ session_memories =
               [u \in UserIds |-> IF u = UserIdOf(user_id_str)
                                  THEN [exists |-> TRUE, turns |-> <<>>]
                                  ELSE NoSession]
        /\ loc = [t \in Threads |->
                     [IdleLocals EXCEPT !.question = question,
                                        !.chat_memory = [attached |-> TRUE, turns |-> <<>>],
                                        !.before = session_memories,
                                        !.mongo_matches = mongo_matches,
                                        !.extracted = mongo_matches,
                                        !.user_id_str = user_id_str,
                                        !.user_id = UserIdOf(user_id_str),
                                        !.user_data = UserProfile(user_id_str)]]

NextDrugFlow ==
    \E t \in Threads :
        \/ ResolveInteractions(t)
        \/ \E outcome \in ClassifyOutcomes : ClassifyIntent(t, outcome)
        \/ \E encode_ok, query_ok \in BOOLEAN : Retrieve(t, encode_ok, query_ok)
        \/ \E outcome \in AnswerOutcomes : GroundedAnswer(t, outcome)

SpecDrugFlow == InitDrugFlow /\ [][NextDrugFlow]_vars

\* the number of calls of a request made at a site
CallCount(t, site) ==
    Cardinality({i \in 1..Len(loc[t].calls) : loc[t].calls[i] = site})

\* C16: for a question without a fast-path keyword the Intent Classifier
\* returns GENERAL_INFO when the generator call fails and when its output
\* holds neither label: after the generator was called for the intent, the
\* intent is INTERACTION or GENERAL_INFO, and unless it is INTERACTION the
\* single drug is retrieved with interaction passages excluded.
C16_UnclassifiableIsGeneralInfo ==
    \A t \in Threads :
        Called(t, "classify") =>
            /\ loc[t].rag_intent \in {"INTERACTION", "GENERAL_INFO"}
            /\ loc[t].rag_intent # "INTERACTION" =>
                /\ loc[t].exclude_interactions
                /\ \A i \in 1..Len(loc[t].retrievals) :
                       loc[t].retrievals[i].exclude_interactions

\* C17: within one request the Intent Classifier's generator call is made
\* at most once, only after the Interaction Resolver has run, and only when
\* exactly one drug was resolved and no structured finding was found; with
\* two resolved drugs or a finding it is never made and the intent is
\* INTERACTION; when the question contains a fast-path keyword the intent
\* is INTERACTION without a generator call.
C17_ClassifierOnlyWhenNeeded ==
    \A t \in Threads :
        LET l == loc[t]
            classified == pc[t] \in {"retrieve", "answer"}
                             \/ (pc[t] = "done" /\ l.rag_intent # "")
            keyword == \E k \in InteractionKeywords : Contains(Lower(l.question), k)
        IN  /\ CallCount(t, "classify") <= 1
            /\ Called(t, "classify") =>
                /\ classified
                /\ l.primary_match # NoDoc
                /\ Len(l.mongo_matches) = 1
                /\ l.direct_interaction_context = <<>>
                /\ ~keyword
            /\ (classified /\ (Len(l.mongo_matches) = 2
                                 \/ l.direct_interaction_context # <<>>)) =>
                /\ ~Called(t, "classify")
                /\ l.rag_intent = "INTERACTION"
            /\ (classified /\ keyword) =>
                /\ ~Called(t, "classify")
                /\ l.rag_intent = "INTERACTION"

\* one drug, no finding and a question with a fast-path keyword: the intent
\* is INTERACTION and the generator was not called for it
C17_Witness ==
    \E t \in Threads :
        /\ pc[t] = "retrieve"
        /\ Len(loc[t].mongo_matches) = 1
        /\ loc[t].direct_interaction_context = <<>>
        /\ \E k \in InteractionKeywords : Contains(Lower(loc[t].question), k)
        /\ loc[t].rag_intent = "INTERACTION"
        /\ ~Called(t, "classify")

-----------------------------------------------------------------------------
(* Properties of the replies                                               *)

\* C18: whatever collaborator calls fail (the generator, the embedder, the
\* passage index, the registry lookups by name and by id, the profile
\* lookup), handle_chat_query ends by returning a text and a status: no
\* request ends with an exception escaping to the caller.
C18_NoErrorEscapes ==
    \A t \in Threads :
        Done(t) => loc[t].response.text # MsgUncaught

\* the status handle_chat_query returns for a failed final-answer call
InternalErrorStatus == 500

\* C19: the status identifies the outcome: 200 for the reset, profile,
\* general-chat, grounded-answer and no-information outcomes; 400 when the
\* question is missing or empty, in which case nothing was called and no
\* session was touched; the internal-error status for a failed final-answer
\* generator call; and for missing collaborators a status of its own,
\* distinct from the internal-error status.
C19_StatusIdentifiesOutcome ==
    \A t \in Threads :
        Done(t) =>
            LET r == loc[t].response
            IN  /\ (\/ r.text \in {MsgReset, MsgNoInformation}
                    \/ \E site \in FinalSites :
                           Called(t, site) /\ ~loc[t].generator_failed) =>
                       r.status = 200
                /\ r.text = MsgNoQuestion =>
                       /\ ~Truthy(loc[t].question)
                       /\ r.status = 400
                       /\ loc[t].calls = <<>>
                       /\ session_memories = loc[t].before
                /\ (\E site \in FinalSites :
                        Called(t, site) /\ loc[t].generator_failed) =>
                       r.status = InternalErrorStatus
                /\ r.text = MsgUnavailable =>
                       r.status \notin {200, 400, InternalErrorStatus}

-----------------------------------------------------------------------------
(* Properties of the Passage Retriever                                     *)

\* the passages the index holds for a drug id
PassagesOf(drug_id) == {p \in Range(PassageIndex) : p.drugbank_id = drug_id}

\* C20: every passage get_relevant_documents returns for a drug id has that
\* drug id as its originating drug, at most k = 5 passages are returned,
\* with exclude_interactions no returned passage has the section
\* 'drug_interactions', and without it such passages are returned when
\* they are among the nearest.
C20_RetrieverFilter ==
    \A t \in Threads :
        \A i \in 1..Len(loc[t].retrievals) :
            LET r == loc[t].retrievals[i]
            IN  r.retrieved =>
                    /\ Len(r.docs) <= K
                    /\ \A j \in 1..Len(r.docs) :
                           /\ r.docs[j] \in PassagesOf(r.drug_id)
                           /\ r.exclude_interactions =>
                                  r.docs[j].section # S_drug_interactions
                    /\ (~r.exclude_interactions /\ r.docs # <<>>
                          /\ Cardinality(PassagesOf(r.drug_id)) <= K) =>
                           Range(r.docs) = PassagesOf(r.drug_id)

\* k passages were returned, interaction passages excluded, for a drug of
\* which the index holds more than k passages, one on interactions
C20_Witness ==
    \E t \in Threads :
        \E i \in 1..Len(loc[t].retrievals) :
            LET r == loc[t].retrievals[i]
            IN  /\ r.retrieved
                /\ r.exclude_interactions
                /\ Len(r.docs) = K
                /\ Cardinality(PassagesOf(r.drug_id)) > K
                /\ \E p \in PassagesOf(r.drug_id) : p.section = S_drug_interactions

\* the retrieval loop of the request is over
Retrieved(t) ==
    /\ loc[t].final_rag_targets # <<>>
    /\ Len(loc[t].retrievals) = Len(loc[t].final_rag_targets)

\* C21: when the embedder's encode call or the index's query call fails,
\* the retrieval for that drug yields no passage and no context and no
\* error reaches the orchestrator; the request goes on with the other
\* target and with the structured finding, and ends in the no-information
\* outcome only if there is neither a finding nor a passage.
C21_RetrievalFailureIsEmpty ==
    \A t \in Threads :
        LET l == loc[t]
        IN  /\ pc[t] = "retrieve" =>
                \A encode_ok, query_ok \in BOOLEAN :
                    ~(encode_ok /\ query_ok) =>
                        get_drug_context_rag_docs(
                            l.final_rag_targets[Len(l.retrievals) + 1],
                            l.exclude_interactions, encode_ok, query_ok)
                          = [docs |-> <<>>, context |-> <<>>]
            /\ pc[t] \in {"answer", "done"} /\ l.retrievals # <<>> =>
                /\ Retrieved(t)
                /\ l.response.text # MsgUncaught
                /\ l.response.text = MsgNoInformation <=>
                       /\ pc[t] = "done"
                       /\ l.direct_interaction_context = <<>>
                       /\ \A i \in 1..Len(l.retrievals) : l.retrievals[i].docs = <<>>

\* the retrieval for Aspirin, of which the index holds passages that the
\* filter accepts, came back empty, and the request went on to answer from
\* the passages of the second drug
C21_Witness ==
    \E t \in Threads :
        /\ pc[t] = "answer"
        /\ Len(loc[t].retrievals) = 2
        /\ loc[t].retrievals[1].drug_id = DB1
        /\ ~loc[t].retrievals[1].exclude_interactions
        /\ loc[t].retrievals[1].retrieved
        /\ loc[t].retrievals[1].docs = <<>>
        /\ loc[t].retrievals[2].docs # <<>>

-----------------------------------------------------------------------------
(* Properties of the sessions                                              *)

\* C22: sessions are keyed by user id.  A request carrying user id U reads,
\* appends to or clears only the session of U and leaves every other
\* user's session as it was when the request came, and a request without
\* a user id works on the session stored under "default_user".
C22_SessionsKeyedByUser ==
    \A t \in Threads :
        pc[t] # "idle" =>
            LET l == loc[t]
                own == IF l.user_id_str = "" THEN "default_user" ELSE l.user_id_str
            IN  /\ \A u \in UserIds \ {own} : session_memories[u] = l.before[u]
                /\ l.user_id \in {"", own}
                /\ l.history # <<>> => l.history = Buffer(l.before[own].turns)
                /\ l.response.text = MsgReset => session_memories[own] = NoSession

\* a request of u1 added a turn to u1's session while the session of the
\* requests without a user id held a turn
C22_Witness ==
    \E t \in Threads :
        /\ Done(t)
        /\ loc[t].user_id_str = "u1"
        /\ Len(session_memories["u1"].turns) = Len(loc[t].before["u1"].turns) + 1
        /\ Len(session_memories["default_user"].turns) >= 1

-----------------------------------------------------------------------------
(* Properties of the source citation                                       *)

-----------------------------------------------------------------------------
(* Properties of the Interaction Resolver in the drug flow                 *)

Prescribed(user_data) ==
    SubSeq([k \in 1..Len(user_data.prescriptions) |->
               find_drug_by_name(PrescriptionName(user_data.prescriptions[k]), FALSE)],
           1, Len(user_data.prescriptions))

\* C25: the secondary candidate list holds first the query's second drug,
\* if any, and then registry records of the user's prescriptions in profile
\* order; every candidate has a non-empty id, none has the primary's id,
\* the ids are pairwise distinct, and when the lookups answer every
\* resolvable prescription is a candidate, whatever names between them the
\* registry cannot resolve.
C25_CandidateList ==
    \A t \in Threads :
        LET l == loc[t]
            c == l.secondary_drugs_to_check
            first == IF Len(l.mongo_matches) > 1 THEN 1 ELSE 0
            prescribed == Prescribed(l.user_data)
            At(doc) == Min({k \in 1..Len(prescribed) : prescribed[k] = doc})
        IN  /\ (pc[t] \in {"classify", "retrieve", "answer", "done"}
                  /\ Truthy(Get(l.primary_match.drugbank_id))) =>
                /\ \A i \in 1..Len(c) :
                       /\ Truthy(Get(c[i].drugbank_id))
                       /\ c[i].drugbank_id # l.primary_match.drugbank_id
                       /\ \A j \in 1..Len(c) :
                              i # j => c[i].drugbank_id # c[j].drugbank_id
                /\ first = 1 => (c # <<>> /\ c[1] = l.mongo_matches[2])
                /\ \A i \in (first + 1)..Len(c) :
                       /\ c[i] \in Range(prescribed)
                       /\ \A j \in (i + 1)..Len(c) : At(c[i]) < At(c[j])
            /\ pc[t] = "resolve" =>
                LET query_matches == Reorder(l.mongo_matches, l.question)
                    all == get_secondary_drugs_for_check(query_matches,
                               query_matches[1], l.user_data, {})
                IN  \A k \in 1..Len(prescribed) :
                        (/\ prescribed[k] # NoDoc
                         /\ Truthy(Get(prescribed[k].drugbank_id))
                         /\ prescribed[k].drugbank_id # query_matches[1].drugbank_id) =>
                            prescribed[k] \in Range(all)

\* a second drug from the query followed by a prescription that comes after
\* a name the registry cannot resolve
C25_Witness ==
    \E t \in Threads :
        /\ pc[t] = "retrieve"
        /\ Len(loc[t].mongo_matches) = 2
        /\ Len(loc[t].secondary_drugs_to_check) = 2
        /\ loc[t].secondary_drugs_to_check[1] = loc[t].mongo_matches[2]
        /\ loc[t].secondary_drugs_to_check[2] = Prescribed(loc[t].user_data)[3]
        /\ Prescribed(loc[t].user_data)[2] = NoDoc

-----------------------------------------------------------------------------
(* Two concurrent requests of one user                                     *)

\* the threads of the server that handle the two requests
ConcurrentThreads == {1, 2}

\* the questions of the two requests: a profile question and a greeting
ConcurrentQuestions ==
    <<  <<"m","y"," ","a","l","l","e","r","g","i","e","s","?">>,
        <<"h","e","l","l","o">> >>

\* the sessions when the requests come: none, or one of u1 with a turn
ConcurrentSessions ==
    { [u \in UserIds |-> NoSession],
      [u \in UserIds |->
          IF u = "u1"
          THEN [exists |-> TRUE, turns |-> <<Turn(<<"h","i">>, <<"o","k">>)>>]
          ELSE NoSession] }

\* both requests of user u1 are past the profile lookup, about to call
\* get_chat_memory
InitConcurrent ==
    /\ components = [llm |-> TRUE, embedding_model |-> TRUE,
                     chroma_collection |-> TRUE, drug_collection |-> TRUE]
    /\ session_memories \in ConcurrentSessions
    /\ after_reset = {}
    /\ last_grounded = NoGrounded
    /\ ingestion = NoIngestion
    /\ pc = [t \in ConcurrentThreads |-> "get_memory"]
    /\ loc = [t \in ConcurrentThreads |->
                 [IdleLocals EXCEPT !.question = ConcurrentQuestions[t],
                                    !.user_id_str = "u1",
                                    !.user_id = "u1",
                                    !.before = session_memories]]

NextConcurrent ==
    \E t \in ConcurrentThreads :
        \/ GetChatMemoryCheck(t)
        \/ GetChatMemoryCreate(t)
        \/ GetChatMemoryReturn(t)
        \/ ExtractDrugs(t)
        \/ \E id_error \in BOOLEAN : CheckHistory(t, id_error)
        \/ \E outcome \in AnswerOutcomes : ProfileAnswer(t, outcome)
        \/ \E outcome \in AnswerOutcomes : GeneralAnswer(t, outcome)

SpecConcurrent == InitConcurrent /\ [][NextConcurrent]_vars

\* the request of thread t ended with a successful final-answer call
Answered(t) ==
    /\ pc[t] = "done"
    /\ \E site \in FinalSites : Called(t, site)
    /\ ~loc[t].generator_failed

\* C28: no turn is lost under concurrency without reset.  When the two
\* concurrent requests of a user both end with a successful final-answer
\* generator call, the user's session holds the turns it held before and
\* the turns of both requests, also when the session did not exist before
\* and both requests create it.
C28_NoTurnLost ==
    (\A t \in ConcurrentThreads : Answered(t)) =>
        LET turns == session_memories["u1"].turns
            prior == loc[1].before["u1"].turns
        IN  /\ Len(turns) = Len(prior) + 2
            /\ SubSeq(turns, 1, Len(prior)) = prior
            /\ \A t \in ConcurrentThreads :
                   \E i \in (Len(prior) + 1)..Len(turns) :
                       turns[i] = Turn(loc[t].question, loc[t].response.arg)

\* C26: between resets a user's session history is append-only.  Every
\* step of a request leaves the turns stored for each user as they are,
\* except the step that ends a request of that user in the profile,
\* general-chat or grounded-answer outcome with a successful generator
\* call, which appends exactly one turn: the question and the answer.
C26_AppendOnly ==
    [][\A u \in UserIds :
          LET old == session_memories[u].turns
              new == session_memories'[u].turns
              Ends(t) == /\ pc[t] # "done"
                         /\ pc'[t] = "done"
                         /\ UserIdOf(loc'[t].user_id_str) = u
              Saves(t) == /\ Ends(t)
                          /\ loc'[t].calls # <<>>
                          /\ loc'[t].calls[Len(loc'[t].calls)] \in FinalSites
                          /\ ~loc'[t].generator_failed
          IN  IF \E t \in DOMAIN pc : Ends(t) /\ loc'[t].response.text = MsgReset
              THEN TRUE
              ELSE IF \E t \in DOMAIN pc : Saves(t)
              THEN \E t \in DOMAIN pc :
                       /\ Saves(t)
                       /\ new = Append(old, Turn(loc'[t].question,
                                                 loc'[t].response.arg))
              ELSE new = old]_vars

-----------------------------------------------------------------------------
(* Properties of the resolved records                                      *)

\* C27: every record the Entity Resolver returns, from the question or
\* from the history, has a non-empty drugbank id; in the drug flow the
\* primary drug has an id and no request ends with the "missing a DrugBank
\* ID" response.
C27_ResolvedHaveIds ==
    \A t \in Threads :
        /\ \A i \in 1..Len(loc[t].mongo_matches) :
               Truthy(Get(loc[t].mongo_matches[i].drugbank_id))
        /\ \A i \in 1..Len(loc[t].extracted) :
               Truthy(Get(loc[t].extracted[i].drugbank_id))
        /\ loc[t].primary_match # NoDoc =>
               Truthy(Get(loc[t].primary_match.drugbank_id))
        /\ loc[t].response.text # MsgMissingId

\* the drug flow ran for a drug pulled from the history and for a drug
\* extracted from the question
C27_Witness ==
    \E t \in Threads :
        /\ pc[t] = "retrieve"
        /\ loc[t].primary_match # NoDoc
        /\ loc[t].from_history
        /\ session_memories[loc[t].user_id].turns # <<>>

\* C29: the detection of a structured interaction does not depend on
\* which drug is primary: for two resolved drugs, if the interactions list
\* of either holds a record with the other's id, the request produces a
\* structured finding.
C29_FindingEitherWay ==
    \A t \in Threads :
        LET l == loc[t]
        IN  (/\ pc[t] \in {"classify", "retrieve", "answer", "done"}
             /\ Len(l.mongo_matches) = 2
             /\ \/ l.mongo_matches[2].drugbank_id \in InteractionIds(l.mongo_matches[1])
                \/ l.mongo_matches[1].drugbank_id \in InteractionIds(l.mongo_matches[2])) =>
                l.direct_interaction_context # <<>>

-----------------------------------------------------------------------------
(* Ingestion job (db_scripts/vectorize_drugbank.py)                        *)

\* the largest number of documents a run of the ingestion job fetches
MaxDocuments == 2

\* the documents drug_collection can hold for the job: the records of the
\* registry, each with or without a description; no record has the fields
\* food_interactions and targets
IngestDocs ==
    {[drugbank_id |-> Registry[i].drugbank_id, name |-> Registry[i].name,
      description |-> d,
      drug_interactions |-> Registry[i].drug_interactions] :
        i \in 1..Len(Registry), d \in {Absent, <<"p","a","i","n">>}}

\* context_parts of one document: one part per field, in the order
\* description, drug_interactions, food_interactions, targets, for the
\* fields whose value is truthy; a part is its field's title followed by the
\* field's text (a list's items joined with ", "), kept here as the field
\* name.  "\n".join(context_parts).strip() is empty exactly when there is
\* no part.
ContextParts(doc) ==
    LET has(field) ==
            CASE field = "description" -> Truthy(doc.description)
              [] field = "drug_interactions" -> Len(doc.drug_interactions) > 0
              [] OTHER -> FALSE
    IN  SelectSeq(<<"description", "drug_interactions", "food_interactions",
                    "targets">>, has)

\* one iteration of the loop of embed_drug_data over the fetched documents:
\* a document without drugbank_id is skipped, and so is one without
\* content, one whose embedding fails or is empty, and one collection.add
\* rejects; otherwise one passage is added, with the document's whole
\* content and the metadata {"name", "drugbank_id"}: no "section" key
EmbedDocument(embed_ok, add_ok) ==
    /\ ingestion.idx <= Len(ingestion.documents)
    /\ LET doc == ingestion.documents[ingestion.idx]
           content == ContextParts(doc)
           passage == [id |-> doc.drugbank_id, content |-> content,
                       name |-> GetDefault(doc.name,
                                           <<"U","n","k","n","o","w","n">>),
                       drugbank_id |-> doc.drugbank_id, section |-> Absent]
           stored == /\ Truthy(doc.drugbank_id)
                     /\ content # <<>>
                     /\ embed_ok
                     /\ add_ok
       IN  ingestion' = [ingestion EXCEPT
                            !.idx = @ + 1,
                            !.collection = IF stored THEN Append(@, passage)
                                           ELSE @]
    /\ UNCHANGED <<components, session_memories, pc, loc, after_reset,
                   last_grounded>>

\* the job has fetched one to MaxDocuments different documents and has
\* cleared the collection; no request is being handled
InitIngest ==
    /\ components = [llm |-> TRUE, embedding_model |-> TRUE,
                     chroma_collection |-> TRUE, drug_collection |-> TRUE]
    /\ session_memories = [u \in UserIds |-> NoSession]
    /\ pc = [t \in Threads |-> "idle"]
    /\ loc = [t \in Threads |-> IdleLocals]
    /\ after_reset = {}
    /\ last_grounded = NoGrounded
    /\ \E documents \in SeqsUpTo(IngestDocs, MaxDocuments) :
           /\ Len(documents) >= 1
           /\ \A i, j \in 1..Len(documents) :
                  i # j => <<documents[i].drugbank_id, documents[i].name>>
                               # <<documents[j].drugbank_id, documents[j].name>>
           /\ ingestion = [documents |-> documents, idx |-> 1,
                           collection |-> <<>>]

NextIngest == \E embed_ok, add_ok \in BOOLEAN : EmbedDocument(embed_ok, add_ok)

SpecIngest == InitIngest /\ [][NextIngest]_vars

\* C30: every passage the ingestion job stores whose content includes a
\* drug's drug_interactions text carries the metadata section tag
\* 'drug_interactions', and so the filter of a single-drug GENERAL_INFO
\* retrieval (the drug's id, interactions excluded) accepts no such passage.
C30_InteractionPassagesTagged ==
    \A i \in 1..Len(ingestion.collection) :
        LET passage == ingestion.collection[i]
        IN  (\E j \in 1..Len(passage.content) :
                 passage.content[j] = "drug_interactions") =>
                /\ passage.section = S_drug_interactions
                /\ ~FilterAccepts(WhereFilter(passage.drugbank_id, TRUE),
                                  passage)

=============================================================================
